---------------------------- MODULE Spec2Model ----------------------------
(***************************************************************************)
(* CPU1 simulator core: the instruction-set tables, the construction of    *)
(* the 256-entry dispatch table, and the fetch-decode-execute engine       *)
(* (CPU.Step) with every instruction handler.                              *)
(*                                                                         *)
(* Bytes are integers 0..255 and addresses integers 0..65535; every Go     *)
(* byte / uint16 operation is taken modulo its width.                      *)
(***************************************************************************)
EXTENDS Integers, Sequences, FiniteSets, TLC

(***************************************************************************)
(* Fixed-width arithmetic and bit operations                               *)
(***************************************************************************)
Byte == 0..255

Word == 0..65535

ToByte(n) == n % 256

ToWord(n) == n % 65536

Pow2(i) == CASE i = 0 -> 1 [] i = 1 -> 2 [] i = 2 -> 4 [] i = 3 -> 8
             [] i = 4 -> 16 [] i = 5 -> 32 [] i = 6 -> 64 [] i = 7 -> 128

Bit(v, i) == (v \div Pow2(i)) % 2

BitAnd(a, b) ==
  LET s(i) == IF Bit(a, i) = 1 /\ Bit(b, i) = 1 THEN Pow2(i) ELSE 0
  IN  s(0) + s(1) + s(2) + s(3) + s(4) + s(5) + s(6) + s(7)

BitOr(a, b) ==
  LET s(i) == IF Bit(a, i) = 1 \/ Bit(b, i) = 1 THEN Pow2(i) ELSE 0
  IN  s(0) + s(1) + s(2) + s(3) + s(4) + s(5) + s(6) + s(7)

BitXor(a, b) ==
  LET s(i) == IF Bit(a, i) # Bit(b, i) THEN Pow2(i) ELSE 0
  IN  s(0) + s(1) + s(2) + s(3) + s(4) + s(5) + s(6) + s(7)

(***************************************************************************)
(* Architectures and the opcode tables                                     *)
(***************************************************************************)
NMOS == 0

CMOS == 1

Architecture == {NMOS, CMOS}

I(s, n, f0, f1) == [sym |-> s, name |-> n, fn |-> <<f0, f1>>]

D(s, m, op, l, c, bp, cm) ==
  [sym |-> s, mode |-> m, opcode |-> op, length |-> l, cycles |-> c,
   bpcycles |-> bp, cmos |-> cm]

U(op, m, l, c) == [opcode |-> op, mode |-> m, length |-> l, cycles |-> c]

(* src/unnamed/part_001: var impl -- (sym, name, handler for NMOS, handler for CMOS) *)
impl ==
  << I("symADI0", "ADI0", "adi", "adi"),
     I("symADI1", "ADI1", "adi", "adi"),
     I("symADI2", "ADI2", "adi", "adi"),
     I("symADI3", "ADI3", "adi", "adi"),
     I("symADI4", "ADI4", "adi", "adi"),
     I("symADI5", "ADI5", "adi", "adi"),
     I("symADI6", "ADI6", "adi", "adi"),
     I("symADI7", "ADI7", "adi", "adi"),
     I("symADM", "ADM", "adm", "adm"),
     I("symADR", "ADR", "adr", "adr"),
     I("symAND", "AND", "and", "and"),
     I("symANI", "ANI", "ani", "ani"),
     I("symCALL", "CALL", "call", "call"),
     I("symCMP", "CMP", "cmp", "cmp"),
     I("symCPSR", "CPSR", "cpsr", "cpsr"),
     I("symDEC", "DEC", "dec", "dec"),
     I("symEX", "EX", "ex", "ex"),
     I("symHALT", "HALT", "halt", "halt"),
     I("symINC", "INC", "inc", "inc"),
     I("symLBR", "LBR", "lbr", "lbr"),
     I("symLBRC", "LBRC", "lbrc", "lbrc"),
     I("symLBRZ", "LBRZ", "lbrz", "lbrz"),
     I("symLBRQ", "LBRQ", "lbrq", "lbrq"),
     I("symLDI0", "LDI0", "ldi", "ldi"),
     I("symLDI1", "LDI1", "ldi", "ldi"),
     I("symLDI2", "LDI2", "ldi", "ldi"),
     I("symLDI3", "LDI3", "ldi", "ldi"),
     I("symLDI4", "LDI4", "ldi", "ldi"),
     I("symLDI5", "LDI5", "ldi", "ldi"),
     I("symLDI6", "LDI6", "ldi", "ldi"),
     I("symLDI7", "LDI7", "ldi", "ldi"),
     I("symLDM", "LDM", "ldm", "ldm"),
     I("symNOP", "NOP", "nop", "nop"),
     I("symOR", "OR", "or", "or"),
     I("symORI", "ORI", "ori", "ori"),
     I("symPOP0", "POP0", "popr", "popr"),
     I("symPOP1", "POP1", "popr", "popr"),
     I("symPOP2", "POP2", "popr", "popr"),
     I("symPOP3", "POP3", "popr", "popr"),
     I("symPOP4", "POP4", "popr", "popr"),
     I("symPOP5", "POP5", "popr", "popr"),
     I("symPOP6", "POP6", "popr", "popr"),
     I("symPOP7", "POP7", "popr", "popr"),
     I("symPUSH0", "PUSH0", "pushr", "pushr"),
     I("symPUSH1", "PUSH1", "pushr", "pushr"),
     I("symPUSH2", "PUSH2", "pushr", "pushr"),
     I("symPUSH3", "PUSH3", "pushr", "pushr"),
     I("symPUSH4", "PUSH4", "pushr", "pushr"),
     I("symPUSH5", "PUSH5", "pushr", "pushr"),
     I("symPUSH6", "PUSH6", "pushr", "pushr"),
     I("symPUSH7", "PUSH7", "pushr", "pushr"),
     I("symRESETQ0", "RESETQ0", "resetq", "resetq"),
     I("symRESETQ1", "RESETQ1", "resetq", "resetq"),
     I("symRESETQ2", "RESETQ2", "resetq", "resetq"),
     I("symRESETQ3", "RESETQ3", "resetq", "resetq"),
     I("symRESETQ4", "RESETQ4", "resetq", "resetq"),
     I("symRESETQ5", "RESETQ5", "resetq", "resetq"),
     I("symRESETQ6", "RESETQ6", "resetq", "resetq"),
     I("symRESETQ7", "RESETQ7", "resetq", "resetq"),
     I("symRET", "RET", "ret", "ret"),
     I("symSETQ0", "SETQ0", "setq", "setq"),
     I("symSETQ1", "SETQ1", "setq", "setq"),
     I("symSETQ2", "SETQ2", "setq", "setq"),
     I("symSETQ3", "SETQ3", "setq", "setq"),
     I("symSETQ4", "SETQ4", "setq", "setq"),
     I("symSETQ5", "SETQ5", "setq", "setq"),
     I("symSETQ6", "SETQ6", "setq", "setq"),
     I("symSETQ7", "SETQ7", "setq", "setq"),
     I("symSHL", "SHL", "shl", "shl"),
     I("symSHLC", "SHLC", "shlc", "shlc"),
     I("symSHR", "SHR", "shr", "shr"),
     I("symSHRC", "SHRC", "shrc", "shrc"),
     I("symSPSR", "SPSR", "spsr", "spsr"),
     I("symSTI0", "STI0", "sti", "sti"),
     I("symSTI1", "STI1", "sti", "sti"),
     I("symSTI2", "STI2", "sti", "sti"),
     I("symSTI3", "STI3", "sti", "sti"),
     I("symSTI4", "STI4", "sti", "sti"),
     I("symSTI5", "STI5", "sti", "sti"),
     I("symSTI6", "STI6", "sti", "sti"),
     I("symSTI7", "STI7", "sti", "sti"),
     I("symSUB", "SUB", "sub", "sub"),
     I("symSUBI", "SUBI", "subi", "subi"),
     I("symSUBM", "SUBM", "subm", "subm"),
     I("symXOR", "XOR", "xor", "xor"),
     I("symXRI", "XRI", "xri", "xri") >>

(* src/unnamed/part_001: var data -- (sym, mode, opcode, length, cycles, bpcycles, cmos) *)
data ==
  << D("symADI0", "IMM", 136, 2, 3, 0, FALSE),
     D("symADI1", "IMM", 137, 2, 3, 0, FALSE),
     D("symADI2", "IMM", 138, 2, 3, 0, FALSE),
     D("symADI3", "IMM", 139, 2, 3, 0, FALSE),
     D("symADI4", "IMM", 140, 2, 3, 0, FALSE),
     D("symADI5", "IMM", 141, 2, 3, 0, FALSE),
     D("symADI6", "IMM", 142, 2, 3, 0, FALSE),
     D("symADI7", "IMM", 143, 2, 3, 0, FALSE),
     D("symADM", "ABS", 144, 3, 4, 0, FALSE),
     D("symADM", "ABS", 145, 3, 4, 0, FALSE),
     D("symADM", "ABS", 146, 3, 4, 0, FALSE),
     D("symADM", "ABS", 147, 3, 4, 0, FALSE),
     D("symADM", "ABS", 148, 3, 4, 0, FALSE),
     D("symADM", "ABS", 149, 3, 4, 0, FALSE),
     D("symADM", "ABS", 150, 3, 4, 0, FALSE),
     D("symADM", "ABS", 151, 3, 4, 0, FALSE),
     D("symADR", "IMM", 128, 2, 3, 0, FALSE),
     D("symAND", "IMM", 134, 2, 3, 0, FALSE),
     D("symANI", "IMM", 80, 2, 3, 0, FALSE),
     D("symANI", "IMM", 81, 2, 3, 0, FALSE),
     D("symANI", "IMM", 82, 2, 3, 0, FALSE),
     D("symANI", "IMM", 83, 2, 3, 0, FALSE),
     D("symANI", "IMM", 84, 2, 3, 0, FALSE),
     D("symANI", "IMM", 85, 2, 3, 0, FALSE),
     D("symANI", "IMM", 86, 2, 3, 0, FALSE),
     D("symANI", "IMM", 87, 2, 3, 0, FALSE),
     D("symCALL", "ABS", 2, 3, 6, 0, FALSE),
     D("symCMP", "IMM", 133, 2, 3, 0, FALSE),
     D("symDEC", "IMP", 48, 1, 1, 0, FALSE),
     D("symDEC", "IMP", 49, 1, 1, 0, FALSE),
     D("symDEC", "IMP", 50, 1, 1, 0, FALSE),
     D("symDEC", "IMP", 51, 1, 1, 0, FALSE),
     D("symDEC", "IMP", 52, 1, 1, 0, FALSE),
     D("symDEC", "IMP", 53, 1, 1, 0, FALSE),
     D("symDEC", "IMP", 54, 1, 1, 0, FALSE),
     D("symDEC", "IMP", 55, 1, 1, 0, FALSE),
     D("symEX", "IMM", 132, 2, 3, 0, FALSE),
     D("symHALT", "IMP", 1, 1, 1, 0, FALSE),
     D("symINC", "IMP", 40, 1, 1, 0, FALSE),
     D("symINC", "IMP", 41, 1, 1, 0, FALSE),
     D("symINC", "IMP", 42, 1, 1, 0, FALSE),
     D("symINC", "IMP", 43, 1, 1, 0, FALSE),
     D("symINC", "IMP", 44, 1, 1, 0, FALSE),
     D("symINC", "IMP", 45, 1, 1, 0, FALSE),
     D("symINC", "IMP", 46, 1, 1, 0, FALSE),
     D("symINC", "IMP", 47, 1, 1, 0, FALSE),
     D("symLBR", "ABS", 24, 3, 4, 0, FALSE),
     D("symLBRC", "ABS", 26, 3, 4, 0, FALSE),
     D("symLBRQ", "ABS", 176, 3, 4, 0, FALSE),
     D("symLBRQ", "ABS", 177, 3, 4, 0, FALSE),
     D("symLBRQ", "ABS", 178, 3, 4, 0, FALSE),
     D("symLBRQ", "ABS", 179, 3, 4, 0, FALSE),
     D("symLBRQ", "ABS", 180, 3, 4, 0, FALSE),
     D("symLBRQ", "ABS", 181, 3, 4, 0, FALSE),
     D("symLBRQ", "ABS", 182, 3, 4, 0, FALSE),
     D("symLBRQ", "ABS", 183, 3, 4, 0, FALSE),
     D("symLBRZ", "ABS", 27, 3, 4, 0, FALSE),
     D("symLDI0", "IMM", 224, 2, 2, 0, FALSE),
     D("symLDI1", "IMM", 225, 2, 2, 0, FALSE),
     D("symLDI2", "IMM", 226, 2, 2, 0, FALSE),
     D("symLDI3", "IMM", 227, 2, 2, 0, FALSE),
     D("symLDI4", "IMM", 228, 2, 2, 0, FALSE),
     D("symLDI5", "IMM", 229, 2, 2, 0, FALSE),
     D("symLDI6", "IMM", 230, 2, 2, 0, FALSE),
     D("symLDI7", "IMM", 231, 2, 2, 0, FALSE),
     D("symLDM", "ABS", 240, 3, 4, 0, FALSE),
     D("symLDM", "ABS", 241, 3, 4, 0, FALSE),
     D("symLDM", "ABS", 242, 3, 4, 0, FALSE),
     D("symLDM", "ABS", 243, 3, 4, 0, FALSE),
     D("symLDM", "ABS", 244, 3, 4, 0, FALSE),
     D("symLDM", "ABS", 245, 3, 4, 0, FALSE),
     D("symLDM", "ABS", 246, 3, 4, 0, FALSE),
     D("symLDM", "ABS", 247, 3, 4, 0, FALSE),
     D("symNOP", "IMP", 0, 1, 1, 0, FALSE),
     D("symOR", "IMM", 135, 2, 2, 0, FALSE),
     D("symORI", "IMM", 88, 2, 2, 0, FALSE),
     D("symORI", "IMM", 89, 2, 2, 0, FALSE),
     D("symORI", "IMM", 90, 2, 2, 0, FALSE),
     D("symORI", "IMM", 91, 2, 2, 0, FALSE),
     D("symORI", "IMM", 92, 2, 2, 0, FALSE),
     D("symORI", "IMM", 93, 2, 2, 0, FALSE),
     D("symORI", "IMM", 94, 2, 2, 0, FALSE),
     D("symORI", "IMM", 95, 2, 2, 0, FALSE),
     D("symPOP0", "IMP", 72, 1, 2, 0, FALSE),
     D("symPOP1", "IMP", 73, 1, 2, 0, FALSE),
     D("symPOP2", "IMP", 74, 1, 2, 0, FALSE),
     D("symPOP3", "IMP", 75, 1, 2, 0, FALSE),
     D("symPOP4", "IMP", 76, 1, 2, 0, FALSE),
     D("symPOP5", "IMP", 77, 1, 2, 0, FALSE),
     D("symPOP6", "IMP", 78, 1, 2, 0, FALSE),
     D("symPOP7", "IMP", 79, 1, 2, 0, FALSE),
     D("symPUSH0", "IMP", 64, 1, 2, 0, FALSE),
     D("symPUSH1", "IMP", 65, 1, 2, 0, FALSE),
     D("symPUSH2", "IMP", 66, 1, 2, 0, FALSE),
     D("symPUSH3", "IMP", 67, 1, 2, 0, FALSE),
     D("symPUSH4", "IMP", 68, 1, 2, 0, FALSE),
     D("symPUSH5", "IMP", 69, 1, 2, 0, FALSE),
     D("symPUSH6", "IMP", 70, 1, 2, 0, FALSE),
     D("symPUSH7", "IMP", 71, 1, 2, 0, FALSE),
     D("symRESETQ0", "IMP", 16, 1, 1, 0, FALSE),
     D("symRESETQ1", "IMP", 17, 1, 1, 0, FALSE),
     D("symRESETQ2", "IMP", 18, 1, 1, 0, FALSE),
     D("symRESETQ3", "IMP", 19, 1, 1, 0, FALSE),
     D("symRESETQ4", "IMP", 20, 1, 1, 0, FALSE),
     D("symRESETQ5", "IMP", 21, 1, 1, 0, FALSE),
     D("symRESETQ6", "IMP", 22, 1, 1, 0, FALSE),
     D("symRESETQ7", "IMP", 23, 1, 1, 0, FALSE),
     D("symRET", "IMP", 3, 1, 1, 6, FALSE),
     D("symSETQ0", "IMP", 56, 1, 1, 0, FALSE),
     D("symSETQ1", "IMP", 57, 1, 1, 0, FALSE),
     D("symSETQ2", "IMP", 58, 1, 1, 0, FALSE),
     D("symSETQ3", "IMP", 59, 1, 1, 0, FALSE),
     D("symSETQ4", "IMP", 60, 1, 1, 0, FALSE),
     D("symSETQ5", "IMP", 61, 1, 1, 0, FALSE),
     D("symSETQ6", "IMP", 62, 1, 1, 0, FALSE),
     D("symSETQ7", "IMP", 63, 1, 1, 0, FALSE),
     D("symSHL", "IMP", 120, 1, 1, 0, FALSE),
     D("symSHL", "IMP", 121, 1, 1, 0, FALSE),
     D("symSHL", "IMP", 122, 1, 1, 0, FALSE),
     D("symSHL", "IMP", 123, 1, 1, 0, FALSE),
     D("symSHL", "IMP", 124, 1, 1, 0, FALSE),
     D("symSHL", "IMP", 125, 1, 1, 0, FALSE),
     D("symSHL", "IMP", 126, 1, 1, 0, FALSE),
     D("symSHL", "IMP", 127, 1, 1, 0, FALSE),
     D("symSHLC", "IMP", 32, 1, 1, 0, FALSE),
     D("symSHLC", "IMP", 33, 1, 1, 0, FALSE),
     D("symSHLC", "IMP", 34, 1, 1, 0, FALSE),
     D("symSHLC", "IMP", 35, 1, 1, 0, FALSE),
     D("symSHLC", "IMP", 36, 1, 1, 0, FALSE),
     D("symSHLC", "IMP", 37, 1, 1, 0, FALSE),
     D("symSHLC", "IMP", 38, 1, 1, 0, FALSE),
     D("symSHLC", "IMP", 39, 1, 1, 0, FALSE),
     D("symSHR", "IMP", 104, 1, 1, 0, FALSE),
     D("symSHR", "IMP", 105, 1, 1, 0, FALSE),
     D("symSHR", "IMP", 106, 1, 1, 0, FALSE),
     D("symSHR", "IMP", 107, 1, 1, 0, FALSE),
     D("symSHR", "IMP", 108, 1, 1, 0, FALSE),
     D("symSHR", "IMP", 109, 1, 1, 0, FALSE),
     D("symSHR", "IMP", 110, 1, 1, 0, FALSE),
     D("symSHR", "IMP", 111, 1, 1, 0, FALSE),
     D("symSHRC", "IMP", 112, 1, 1, 0, FALSE),
     D("symSHRC", "IMP", 113, 1, 1, 0, FALSE),
     D("symSHRC", "IMP", 114, 1, 1, 0, FALSE),
     D("symSHRC", "IMP", 115, 1, 1, 0, FALSE),
     D("symSHRC", "IMP", 116, 1, 1, 0, FALSE),
     D("symSHRC", "IMP", 117, 1, 1, 0, FALSE),
     D("symSHRC", "IMP", 118, 1, 1, 0, FALSE),
     D("symSHRC", "IMP", 119, 1, 1, 0, FALSE),
     D("symCPSR", "IMM", 5, 2, 2, 0, FALSE),
     D("symSPSR", "IMM", 4, 2, 2, 0, FALSE),
     D("symSTI0", "ABS", 232, 3, 4, 0, FALSE),
     D("symSTI1", "ABS", 233, 3, 4, 0, FALSE),
     D("symSTI2", "ABS", 234, 3, 4, 0, FALSE),
     D("symSTI3", "ABS", 235, 3, 4, 0, FALSE),
     D("symSTI4", "ABS", 236, 3, 4, 0, FALSE),
     D("symSTI5", "ABS", 237, 3, 4, 0, FALSE),
     D("symSTI6", "ABS", 238, 3, 4, 0, FALSE),
     D("symSTI7", "ABS", 239, 3, 4, 0, FALSE),
     D("symSUB", "IMM", 130, 2, 2, 0, FALSE),
     D("symSUBI", "IMM", 184, 2, 2, 0, FALSE),
     D("symSUBI", "IMM", 185, 2, 2, 0, FALSE),
     D("symSUBI", "IMM", 186, 2, 2, 0, FALSE),
     D("symSUBI", "IMM", 187, 2, 2, 0, FALSE),
     D("symSUBI", "IMM", 188, 2, 2, 0, FALSE),
     D("symSUBI", "IMM", 189, 2, 2, 0, FALSE),
     D("symSUBI", "IMM", 190, 2, 2, 0, FALSE),
     D("symSUBI", "IMM", 191, 2, 2, 0, FALSE),
     D("symSUBM", "ABS", 192, 3, 4, 0, FALSE),
     D("symSUBM", "ABS", 193, 3, 4, 0, FALSE),
     D("symSUBM", "ABS", 194, 3, 4, 0, FALSE),
     D("symSUBM", "ABS", 195, 3, 4, 0, FALSE),
     D("symSUBM", "ABS", 196, 3, 4, 0, FALSE),
     D("symSUBM", "ABS", 197, 3, 4, 0, FALSE),
     D("symSUBM", "ABS", 198, 3, 4, 0, FALSE),
     D("symSUBM", "ABS", 199, 3, 4, 0, FALSE),
     D("symXOR", "IMM", 25, 2, 2, 0, FALSE),
     D("symXRI", "IMM", 96, 2, 2, 0, FALSE),
     D("symXRI", "IMM", 97, 2, 2, 0, FALSE),
     D("symXRI", "IMM", 98, 2, 2, 0, FALSE),
     D("symXRI", "IMM", 99, 2, 2, 0, FALSE),
     D("symXRI", "IMM", 100, 2, 2, 0, FALSE),
     D("symXRI", "IMM", 101, 2, 2, 0, FALSE),
     D("symXRI", "IMM", 102, 2, 2, 0, FALSE),
     D("symXRI", "IMM", 103, 2, 2, 0, FALSE) >>

(* unusedData with a row for $03, the opcode of RET. *)
unusedData_withRET ==
  << U(3, "IMP", 1, 1),
     U(6, "IMP", 1, 1),
     U(7, "IMP", 1, 1),
     U(8, "IMP", 1, 1),
     U(9, "IMP", 1, 1),
     U(10, "IMP", 1, 1),
     U(11, "IMP", 1, 1),
     U(12, "IMP", 1, 1),
     U(13, "IMP", 1, 1),
     U(14, "IMP", 1, 1),
     U(15, "IMP", 1, 1),
     U(28, "IMP", 1, 1),
     U(29, "IMP", 1, 1),
     U(30, "IMP", 1, 1),
     U(31, "IMP", 1, 1),
     U(129, "IMP", 1, 1),
     U(131, "IMP", 1, 1),
     U(152, "IMP", 1, 1),
     U(153, "IMP", 1, 1),
     U(154, "IMP", 1, 1),
     U(155, "IMP", 1, 1),
     U(156, "IMP", 1, 1),
     U(157, "IMP", 1, 1),
     U(158, "IMP", 1, 1),
     U(159, "IMP", 1, 1),
     U(160, "IMP", 1, 1),
     U(161, "IMP", 1, 1),
     U(162, "IMP", 1, 1),
     U(163, "IMP", 1, 1),
     U(164, "IMP", 1, 1),
     U(165, "IMP", 1, 1),
     U(166, "IMP", 1, 1),
     U(167, "IMP", 1, 1),
     U(168, "IMP", 1, 1),
     U(169, "IMP", 1, 1),
     U(170, "IMP", 1, 1),
     U(171, "IMP", 1, 1),
     U(172, "IMP", 1, 1),
     U(173, "IMP", 1, 1),
     U(174, "IMP", 1, 1),
     U(175, "IMP", 1, 1),
     U(200, "IMP", 1, 1),
     U(201, "IMP", 1, 1),
     U(202, "IMP", 1, 1),
     U(203, "IMP", 1, 1),
     U(204, "IMP", 1, 1),
     U(205, "IMP", 1, 1),
     U(206, "IMP", 1, 1),
     U(207, "IMP", 1, 1),
     U(208, "IMP", 1, 1),
     U(209, "IMP", 1, 1),
     U(210, "IMP", 1, 1),
     U(211, "IMP", 1, 1),
     U(212, "IMP", 1, 1),
     U(213, "IMP", 1, 1),
     U(214, "IMP", 1, 1),
     U(215, "IMP", 1, 1),
     U(216, "IMP", 1, 1),
     U(217, "IMP", 1, 1),
     U(218, "IMP", 1, 1),
     U(219, "IMP", 1, 1),
     U(220, "IMP", 1, 1),
     U(221, "IMP", 1, 1),
     U(222, "IMP", 1, 1),
     U(223, "IMP", 1, 1),
     U(248, "IMP", 1, 1),
     U(249, "IMP", 1, 1),
     U(250, "IMP", 1, 1),
     U(251, "IMP", 1, 1),
     U(252, "IMP", 1, 1),
     U(253, "IMP", 1, 1),
     U(254, "IMP", 1, 1),
     U(255, "IMP", 1, 1) >>

(* src/unnamed/part_001: var unusedData -- (opcode, mode, length, cycles) *)
unusedData ==
  << U(6, "IMP", 1, 1),
     U(7, "IMP", 1, 1),
     U(8, "IMP", 1, 1),
     U(9, "IMP", 1, 1),
     U(10, "IMP", 1, 1),
     U(11, "IMP", 1, 1),
     U(12, "IMP", 1, 1),
     U(13, "IMP", 1, 1),
     U(14, "IMP", 1, 1),
     U(15, "IMP", 1, 1),
     U(28, "IMP", 1, 1),
     U(29, "IMP", 1, 1),
     U(30, "IMP", 1, 1),
     U(31, "IMP", 1, 1),
     U(129, "IMP", 1, 1),
     U(131, "IMP", 1, 1),
     U(152, "IMP", 1, 1),
     U(153, "IMP", 1, 1),
     U(154, "IMP", 1, 1),
     U(155, "IMP", 1, 1),
     U(156, "IMP", 1, 1),
     U(157, "IMP", 1, 1),
     U(158, "IMP", 1, 1),
     U(159, "IMP", 1, 1),
     U(160, "IMP", 1, 1),
     U(161, "IMP", 1, 1),
     U(162, "IMP", 1, 1),
     U(163, "IMP", 1, 1),
     U(164, "IMP", 1, 1),
     U(165, "IMP", 1, 1),
     U(166, "IMP", 1, 1),
     U(167, "IMP", 1, 1),
     U(168, "IMP", 1, 1),
     U(169, "IMP", 1, 1),
     U(170, "IMP", 1, 1),
     U(171, "IMP", 1, 1),
     U(172, "IMP", 1, 1),
     U(173, "IMP", 1, 1),
     U(174, "IMP", 1, 1),
     U(175, "IMP", 1, 1),
     U(200, "IMP", 1, 1),
     U(201, "IMP", 1, 1),
     U(202, "IMP", 1, 1),
     U(203, "IMP", 1, 1),
     U(204, "IMP", 1, 1),
     U(205, "IMP", 1, 1),
     U(206, "IMP", 1, 1),
     U(207, "IMP", 1, 1),
     U(208, "IMP", 1, 1),
     U(209, "IMP", 1, 1),
     U(210, "IMP", 1, 1),
     U(211, "IMP", 1, 1),
     U(212, "IMP", 1, 1),
     U(213, "IMP", 1, 1),
     U(214, "IMP", 1, 1),
     U(215, "IMP", 1, 1),
     U(216, "IMP", 1, 1),
     U(217, "IMP", 1, 1),
     U(218, "IMP", 1, 1),
     U(219, "IMP", 1, 1),
     U(220, "IMP", 1, 1),
     U(221, "IMP", 1, 1),
     U(222, "IMP", 1, 1),
     U(223, "IMP", 1, 1),
     U(248, "IMP", 1, 1),
     U(249, "IMP", 1, 1),
     U(250, "IMP", 1, 1),
     U(251, "IMP", 1, 1),
     U(252, "IMP", 1, 1),
     U(253, "IMP", 1, 1),
     U(254, "IMP", 1, 1),
     U(255, "IMP", 1, 1) >>

(* src/cpu/instructions.go: var impl -- (sym, name, handler for NMOS, handler for CMOS) *)
cpu_impl ==
  << I("symADI", "ADI", "adi", "adi"),
     I("symADIC", "ADIC", "adic", "adic"),
     I("symADM", "ADM", "adm", "adm"),
     I("symADMC", "ADMC", "admc", "admc"),
     I("symADR", "ADR", "adr", "adr"),
     I("symADRC", "ADRC", "adrc", "adrc"),
     I("symAND", "AND", "and", "and"),
     I("symANI", "ANI", "ani", "ani"),
     I("symCALL", "CALL", "call", "call"),
     I("symCMP", "CMP", "cmp", "cmp"),
     I("symDEC", "DEC", "dec", "dec"),
     I("symEX", "EX", "ex", "ex"),
     I("symHALT", "HALT", "halt", "halt"),
     I("symINC", "INC", "inc", "inc"),
     I("symLBRC", "LBRC", "lbrc", "lbrc"),
     I("symLBRQ", "LBRQ", "lbrq", "lbrq"),
     I("symLDI", "LDI", "ldi", "ldi"),
     I("symLDM", "LDM", "ldm", "ldm"),
     I("symNOP", "NOP", "nop", "nop"),
     I("symOR", "OR", "or", "or"),
     I("symORI", "ORI", "ori", "ori"),
     I("symPOP", "POP", "popr", "popr"),
     I("symPUSH", "PUSH", "pushr", "pushr"),
     I("symRESETQ", "RESETQ", "resetq", "resetq"),
     I("symRET", "RET", "ret", "ret"),
     I("symSETQ", "SETQ", "setq", "setq"),
     I("symSHL", "SHL", "shl", "shl"),
     I("symSHLC", "SHLC", "shlc", "shlc"),
     I("symSHR", "SHR", "shr", "shr"),
     I("symSHRC", "SHRC", "shrc", "shrc"),
     I("symSTI", "STI", "sti", "sti"),
     I("symSUB", "SUB", "sub", "sub"),
     I("symSUBC", "SUBC", "subc", "subc"),
     I("symSUBI", "SUBI", "subi", "subi"),
     I("symSUBIC", "SUBIC", "subic", "subic"),
     I("symSUBM", "SUBM", "subm", "subm"),
     I("symSUBMC", "SUBMC", "submc", "submc"),
     I("symXOR", "XOR", "xor", "xor"),
     I("symXRI", "XRI", "xri", "xri") >>

(* src/cpu/instructions.go: var data -- (sym, mode, opcode, length, cycles, bpcycles, cmos) *)
cpu_data ==
  << D("symADI", "IMM", 136, 2, 1, 0, FALSE),
     D("symADI", "IMM", 137, 2, 1, 0, FALSE),
     D("symADI", "IMM", 138, 2, 1, 0, FALSE),
     D("symADI", "IMM", 139, 2, 1, 0, FALSE),
     D("symADI", "IMM", 140, 2, 1, 0, FALSE),
     D("symADI", "IMM", 141, 2, 1, 0, FALSE),
     D("symADI", "IMM", 142, 2, 1, 0, FALSE),
     D("symADI", "IMM", 143, 2, 1, 0, FALSE),
     D("symADIC", "IMM", 160, 2, 1, 0, FALSE),
     D("symADIC", "IMM", 161, 2, 1, 0, FALSE),
     D("symADIC", "IMM", 162, 2, 1, 0, FALSE),
     D("symADIC", "IMM", 163, 2, 1, 0, FALSE),
     D("symADIC", "IMM", 164, 2, 1, 0, FALSE),
     D("symADIC", "IMM", 165, 2, 1, 0, FALSE),
     D("symADIC", "IMM", 166, 2, 1, 0, FALSE),
     D("symADIC", "IMM", 167, 2, 1, 0, FALSE),
     D("symADM", "ABS", 144, 3, 1, 0, FALSE),
     D("symADM", "ABS", 145, 3, 1, 0, FALSE),
     D("symADM", "ABS", 146, 3, 1, 0, FALSE),
     D("symADM", "ABS", 147, 3, 1, 0, FALSE),
     D("symADM", "ABS", 148, 3, 1, 0, FALSE),
     D("symADM", "ABS", 149, 3, 1, 0, FALSE),
     D("symADM", "ABS", 150, 3, 1, 0, FALSE),
     D("symADM", "ABS", 151, 3, 1, 0, FALSE),
     D("symADMC", "ABS", 168, 3, 1, 0, FALSE),
     D("symADMC", "ABS", 169, 3, 1, 0, FALSE),
     D("symADMC", "ABS", 170, 3, 1, 0, FALSE),
     D("symADMC", "ABS", 171, 3, 1, 0, FALSE),
     D("symADMC", "ABS", 172, 3, 1, 0, FALSE),
     D("symADMC", "ABS", 173, 3, 1, 0, FALSE),
     D("symADMC", "ABS", 174, 3, 1, 0, FALSE),
     D("symADMC", "ABS", 175, 3, 1, 0, FALSE),
     D("symADR", "IMM", 128, 2, 1, 0, FALSE),
     D("symADRC", "IMM", 129, 2, 1, 0, FALSE),
     D("symAND", "IMM", 134, 2, 1, 0, FALSE),
     D("symANI", "IMM", 80, 2, 1, 0, FALSE),
     D("symANI", "IMM", 81, 2, 1, 0, FALSE),
     D("symANI", "IMM", 82, 2, 1, 0, FALSE),
     D("symANI", "IMM", 83, 2, 1, 0, FALSE),
     D("symANI", "IMM", 84, 2, 1, 0, FALSE),
     D("symANI", "IMM", 85, 2, 1, 0, FALSE),
     D("symANI", "IMM", 86, 2, 1, 0, FALSE),
     D("symANI", "IMM", 87, 2, 1, 0, FALSE),
     D("symCALL", "ABS", 2, 3, 1, 0, FALSE),
     D("symRET", "IMP", 3, 1, 1, 0, FALSE),
     D("symCMP", "IMM", 133, 2, 1, 0, FALSE),
     D("symDEC", "IMP", 48, 1, 1, 0, FALSE),
     D("symDEC", "IMP", 49, 1, 1, 0, FALSE),
     D("symDEC", "IMP", 50, 1, 1, 0, FALSE),
     D("symDEC", "IMP", 51, 1, 1, 0, FALSE),
     D("symDEC", "IMP", 52, 1, 1, 0, FALSE),
     D("symDEC", "IMP", 53, 1, 1, 0, FALSE),
     D("symDEC", "IMP", 54, 1, 1, 0, FALSE),
     D("symDEC", "IMP", 55, 1, 1, 0, FALSE),
     D("symEX", "IMM", 132, 2, 1, 0, FALSE),
     D("symHALT", "IMP", 1, 1, 1, 0, FALSE),
     D("symINC", "IMP", 40, 1, 1, 0, FALSE),
     D("symINC", "IMP", 41, 1, 1, 0, FALSE),
     D("symINC", "IMP", 42, 1, 1, 0, FALSE),
     D("symINC", "IMP", 43, 1, 1, 0, FALSE),
     D("symINC", "IMP", 44, 1, 1, 0, FALSE),
     D("symINC", "IMP", 45, 1, 1, 0, FALSE),
     D("symINC", "IMP", 46, 1, 1, 0, FALSE),
     D("symINC", "IMP", 47, 1, 1, 0, FALSE),
     D("symLBRC", "ABS", 24, 3, 1, 0, FALSE),
     D("symLBRQ", "ABS", 8, 3, 1, 0, FALSE),
     D("symLBRQ", "ABS", 9, 3, 1, 0, FALSE),
     D("symLBRQ", "ABS", 10, 3, 1, 0, FALSE),
     D("symLBRQ", "ABS", 11, 3, 1, 0, FALSE),
     D("symLBRQ", "ABS", 12, 3, 1, 0, FALSE),
     D("symLBRQ", "ABS", 13, 3, 1, 0, FALSE),
     D("symLBRQ", "ABS", 14, 3, 1, 0, FALSE),
     D("symLBRQ", "ABS", 15, 3, 1, 0, FALSE),
     D("symLDI", "IMM", 224, 2, 1, 0, FALSE),
     D("symLDI", "IMM", 225, 2, 1, 0, FALSE),
     D("symLDI", "IMM", 226, 2, 1, 0, FALSE),
     D("symLDI", "IMM", 227, 2, 1, 0, FALSE),
     D("symLDI", "IMM", 228, 2, 1, 0, FALSE),
     D("symLDI", "IMM", 229, 2, 1, 0, FALSE),
     D("symLDI", "IMM", 230, 2, 1, 0, FALSE),
     D("symLDI", "IMM", 231, 2, 1, 0, FALSE),
     D("symLDM", "ABS", 240, 3, 1, 0, FALSE),
     D("symLDM", "ABS", 241, 3, 1, 0, FALSE),
     D("symLDM", "ABS", 242, 3, 1, 0, FALSE),
     D("symLDM", "ABS", 243, 3, 1, 0, FALSE),
     D("symLDM", "ABS", 244, 3, 1, 0, FALSE),
     D("symLDM", "ABS", 245, 3, 1, 0, FALSE),
     D("symLDM", "ABS", 246, 3, 1, 0, FALSE),
     D("symLDM", "ABS", 247, 3, 1, 0, FALSE),
     D("symNOP", "IMP", 0, 1, 1, 0, FALSE),
     D("symOR", "IMM", 135, 2, 1, 0, FALSE),
     D("symORI", "IMM", 88, 2, 1, 0, FALSE),
     D("symORI", "IMM", 89, 2, 1, 0, FALSE),
     D("symORI", "IMM", 90, 2, 1, 0, FALSE),
     D("symORI", "IMM", 91, 2, 1, 0, FALSE),
     D("symORI", "IMM", 92, 2, 1, 0, FALSE),
     D("symORI", "IMM", 93, 2, 1, 0, FALSE),
     D("symORI", "IMM", 94, 2, 1, 0, FALSE),
     D("symORI", "IMM", 95, 2, 1, 0, FALSE),
     D("symPOP", "IMP", 72, 1, 1, 0, FALSE),
     D("symPOP", "IMP", 73, 1, 1, 0, FALSE),
     D("symPOP", "IMP", 74, 1, 1, 0, FALSE),
     D("symPOP", "IMP", 75, 1, 1, 0, FALSE),
     D("symPOP", "IMP", 76, 1, 1, 0, FALSE),
     D("symPOP", "IMP", 77, 1, 1, 0, FALSE),
     D("symPOP", "IMP", 78, 1, 1, 0, FALSE),
     D("symPOP", "IMP", 79, 1, 1, 0, FALSE),
     D("symPUSH", "IMP", 64, 1, 1, 0, FALSE),
     D("symPUSH", "IMP", 65, 1, 1, 0, FALSE),
     D("symPUSH", "IMP", 66, 1, 1, 0, FALSE),
     D("symPUSH", "IMP", 67, 1, 1, 0, FALSE),
     D("symPUSH", "IMP", 68, 1, 1, 0, FALSE),
     D("symPUSH", "IMP", 69, 1, 1, 0, FALSE),
     D("symPUSH", "IMP", 70, 1, 1, 0, FALSE),
     D("symPUSH", "IMP", 71, 1, 1, 0, FALSE),
     D("symRESETQ", "IMP", 16, 1, 1, 0, FALSE),
     D("symRESETQ", "IMP", 17, 1, 1, 0, FALSE),
     D("symRESETQ", "IMP", 18, 1, 1, 0, FALSE),
     D("symRESETQ", "IMP", 19, 1, 1, 0, FALSE),
     D("symRESETQ", "IMP", 20, 1, 1, 0, FALSE),
     D("symRESETQ", "IMP", 21, 1, 1, 0, FALSE),
     D("symRESETQ", "IMP", 22, 1, 1, 0, FALSE),
     D("symRESETQ", "IMP", 23, 1, 1, 0, FALSE),
     D("symRET", "IMP", 3, 1, 1, 0, FALSE),
     D("symSETQ", "IMP", 56, 1, 1, 0, FALSE),
     D("symSETQ", "IMP", 57, 1, 1, 0, FALSE),
     D("symSETQ", "IMP", 58, 1, 1, 0, FALSE),
     D("symSETQ", "IMP", 59, 1, 1, 0, FALSE),
     D("symSETQ", "IMP", 60, 1, 1, 0, FALSE),
     D("symSETQ", "IMP", 61, 1, 1, 0, FALSE),
     D("symSETQ", "IMP", 62, 1, 1, 0, FALSE),
     D("symSETQ", "IMP", 63, 1, 1, 0, FALSE),
     D("symSHL", "IMP", 120, 1, 1, 0, FALSE),
     D("symSHL", "IMP", 121, 1, 1, 0, FALSE),
     D("symSHL", "IMP", 122, 1, 1, 0, FALSE),
     D("symSHL", "IMP", 123, 1, 1, 0, FALSE),
     D("symSHL", "IMP", 124, 1, 1, 0, FALSE),
     D("symSHL", "IMP", 125, 1, 1, 0, FALSE),
     D("symSHL", "IMP", 126, 1, 1, 0, FALSE),
     D("symSHL", "IMP", 127, 1, 1, 0, FALSE),
     D("symSHLC", "IMP", 32, 1, 1, 0, FALSE),
     D("symSHLC", "IMP", 33, 1, 1, 0, FALSE),
     D("symSHLC", "IMP", 34, 1, 1, 0, FALSE),
     D("symSHLC", "IMP", 35, 1, 1, 0, FALSE),
     D("symSHLC", "IMP", 36, 1, 1, 0, FALSE),
     D("symSHLC", "IMP", 37, 1, 1, 0, FALSE),
     D("symSHLC", "IMP", 38, 1, 1, 0, FALSE),
     D("symSHLC", "IMP", 39, 1, 1, 0, FALSE),
     D("symSHR", "IMP", 104, 1, 1, 0, FALSE),
     D("symSHR", "IMP", 105, 1, 1, 0, FALSE),
     D("symSHR", "IMP", 106, 1, 1, 0, FALSE),
     D("symSHR", "IMP", 107, 1, 1, 0, FALSE),
     D("symSHR", "IMP", 108, 1, 1, 0, FALSE),
     D("symSHR", "IMP", 109, 1, 1, 0, FALSE),
     D("symSHR", "IMP", 110, 1, 1, 0, FALSE),
     D("symSHR", "IMP", 111, 1, 1, 0, FALSE),
     D("symSHRC", "IMP", 112, 1, 1, 0, FALSE),
     D("symSHRC", "IMP", 113, 1, 1, 0, FALSE),
     D("symSHRC", "IMP", 114, 1, 1, 0, FALSE),
     D("symSHRC", "IMP", 115, 1, 1, 0, FALSE),
     D("symSHRC", "IMP", 116, 1, 1, 0, FALSE),
     D("symSHRC", "IMP", 117, 1, 1, 0, FALSE),
     D("symSHRC", "IMP", 118, 1, 1, 0, FALSE),
     D("symSHRC", "IMP", 119, 1, 1, 0, FALSE),
     D("symSTI", "ABS", 232, 3, 1, 0, FALSE),
     D("symSTI", "ABS", 233, 3, 1, 0, FALSE),
     D("symSTI", "ABS", 234, 3, 1, 0, FALSE),
     D("symSTI", "ABS", 235, 3, 1, 0, FALSE),
     D("symSTI", "ABS", 236, 3, 1, 0, FALSE),
     D("symSTI", "ABS", 237, 3, 1, 0, FALSE),
     D("symSTI", "ABS", 238, 3, 1, 0, FALSE),
     D("symSTI", "ABS", 239, 3, 1, 0, FALSE),
     D("symSUB", "IMM", 130, 2, 1, 0, FALSE),
     D("symSUBC", "IMM", 131, 2, 1, 0, FALSE),
     D("symSUBI", "IMM", 184, 2, 1, 0, FALSE),
     D("symSUBI", "IMM", 185, 2, 1, 0, FALSE),
     D("symSUBI", "IMM", 186, 2, 1, 0, FALSE),
     D("symSUBI", "IMM", 187, 2, 1, 0, FALSE),
     D("symSUBI", "IMM", 188, 2, 1, 0, FALSE),
     D("symSUBI", "IMM", 189, 2, 1, 0, FALSE),
     D("symSUBI", "IMM", 190, 2, 1, 0, FALSE),
     D("symSUBI", "IMM", 191, 2, 1, 0, FALSE),
     D("symSUBIC", "IMM", 208, 2, 1, 0, FALSE),
     D("symSUBIC", "IMM", 209, 2, 1, 0, FALSE),
     D("symSUBIC", "IMM", 210, 2, 1, 0, FALSE),
     D("symSUBIC", "IMM", 211, 2, 1, 0, FALSE),
     D("symSUBIC", "IMM", 212, 2, 1, 0, FALSE),
     D("symSUBIC", "IMM", 213, 2, 1, 0, FALSE),
     D("symSUBIC", "IMM", 214, 2, 1, 0, FALSE),
     D("symSUBIC", "IMM", 215, 2, 1, 0, FALSE),
     D("symSUBM", "ABS", 192, 3, 1, 0, FALSE),
     D("symSUBM", "ABS", 193, 3, 1, 0, FALSE),
     D("symSUBM", "ABS", 194, 3, 1, 0, FALSE),
     D("symSUBM", "ABS", 195, 3, 1, 0, FALSE),
     D("symSUBM", "ABS", 196, 3, 1, 0, FALSE),
     D("symSUBM", "ABS", 197, 3, 1, 0, FALSE),
     D("symSUBM", "ABS", 198, 3, 1, 0, FALSE),
     D("symSUBM", "ABS", 199, 3, 1, 0, FALSE),
     D("symSUBMC", "ABS", 216, 3, 1, 0, FALSE),
     D("symSUBMC", "ABS", 217, 3, 1, 0, FALSE),
     D("symSUBMC", "ABS", 218, 3, 1, 0, FALSE),
     D("symSUBMC", "ABS", 219, 3, 1, 0, FALSE),
     D("symSUBMC", "ABS", 220, 3, 1, 0, FALSE),
     D("symSUBMC", "ABS", 221, 3, 1, 0, FALSE),
     D("symSUBMC", "ABS", 222, 3, 1, 0, FALSE),
     D("symSUBMC", "ABS", 223, 3, 1, 0, FALSE),
     D("symXOR", "IMM", 25, 2, 1, 0, FALSE),
     D("symXRI", "IMM", 96, 2, 1, 0, FALSE),
     D("symXRI", "IMM", 97, 2, 1, 0, FALSE),
     D("symXRI", "IMM", 98, 2, 1, 0, FALSE),
     D("symXRI", "IMM", 99, 2, 1, 0, FALSE),
     D("symXRI", "IMM", 100, 2, 1, 0, FALSE),
     D("symXRI", "IMM", 101, 2, 1, 0, FALSE),
     D("symXRI", "IMM", 102, 2, 1, 0, FALSE),
     D("symXRI", "IMM", 103, 2, 1, 0, FALSE) >>

(* src/cpu/instructions.go: var unusedData -- (opcode, mode, length, cycles) *)
cpu_unusedData ==
  << U(4, "IMP", 1, 1),
     U(5, "IMP", 1, 1),
     U(6, "IMP", 1, 1),
     U(7, "IMP", 1, 1),
     U(26, "IMP", 1, 1),
     U(27, "IMP", 1, 1),
     U(28, "IMP", 1, 1),
     U(29, "IMP", 1, 1),
     U(30, "IMP", 1, 1),
     U(31, "IMP", 1, 1),
     U(152, "IMP", 1, 1),
     U(153, "IMP", 1, 1),
     U(154, "IMP", 1, 1),
     U(155, "IMP", 1, 1),
     U(156, "IMP", 1, 1),
     U(157, "IMP", 1, 1),
     U(158, "IMP", 1, 1),
     U(159, "IMP", 1, 1),
     U(176, "IMP", 1, 1),
     U(177, "IMP", 1, 1),
     U(178, "IMP", 1, 1),
     U(179, "IMP", 1, 1),
     U(180, "IMP", 1, 1),
     U(181, "IMP", 1, 1),
     U(182, "IMP", 1, 1),
     U(183, "IMP", 1, 1),
     U(200, "IMP", 1, 1),
     U(201, "IMP", 1, 1),
     U(202, "IMP", 1, 1),
     U(203, "IMP", 1, 1),
     U(204, "IMP", 1, 1),
     U(205, "IMP", 1, 1),
     U(206, "IMP", 1, 1),
     U(207, "IMP", 1, 1),
     U(248, "IMP", 1, 1),
     U(249, "IMP", 1, 1),
     U(250, "IMP", 1, 1),
     U(251, "IMP", 1, 1),
     U(252, "IMP", 1, 1),
     U(253, "IMP", 1, 1),
     U(254, "IMP", 1, 1),
     U(255, "IMP", 1, 1) >>
(***************************************************************************)
(* Instruction descriptors and table construction                          *)
(***************************************************************************)
unusedName == "???"

(* The zero value of the Go struct Instruction: an unpopulated slot. *)
Instruction ==
  [Name |-> "", Mode |-> "IMM", Opcode |-> 0, Length |-> 0, Cycles |-> 0,
   BPCycles |-> 0, fn |-> "nil"]

(* symToImpl[sym]: the map built by the first loop; a later entry of impl
   with the same sym replaces an earlier one. *)
hasImpl(implTab, s) == \E i \in 1..Len(implTab) : implTab[i].sym = s

symToImpl(implTab, s) ==
  implTab[CHOOSE i \in 1..Len(implTab) :
            /\ implTab[i].sym = s
            /\ \A j \in (i + 1)..Len(implTab) : implTab[j].sym # s]

appendVariant(variants, name, opcode) ==
  IF name \in DOMAIN variants
  THEN [variants EXCEPT ![name] = Append(@, opcode)]
  ELSE variants @@ (name :> <<opcode>>)

(* One iteration of `for _, d := range data`. A descriptor pointer stored
   in variants is represented by the opcode of the slot it points to. *)
dataStep(set, arch, d, implTab) ==
  IF d.cmos /\ arch # CMOS
  THEN [set EXCEPT !.instructions[d.opcode] =
          [Name |-> unusedName, Mode |-> d.mode, Opcode |-> d.opcode,
           Length |-> d.length, Cycles |-> d.cycles, BPCycles |-> 0,
           fn |-> "unusedn"]]
  ELSE IF ~hasImpl(implTab, d.sym)
  THEN [set EXCEPT !.panic = TRUE]
  ELSE LET im == symToImpl(implTab, d.sym) IN
       IF im.fn[arch + 1] = "nil"
       THEN set
       ELSE [set EXCEPT
               !.instructions[d.opcode] =
                  [Name |-> im.name, Mode |-> d.mode, Opcode |-> d.opcode,
                   Length |-> d.length, Cycles |-> d.cycles,
                   BPCycles |-> d.bpcycles, fn |-> im.fn[arch + 1]],
               !.variants = appendVariant(@, im.name, d.opcode)]

(* `for _, d := range data`, entries lo..hi in order (the range is split
   in halves so that the evaluation depth stays logarithmic). *)
RECURSIVE dataLoop(_, _, _, _, _, _)
dataLoop(set, arch, dataTab, implTab, lo, hi) ==
  IF lo > hi \/ set.panic
  THEN set
  ELSE IF lo = hi
  THEN dataStep(set, arch, dataTab[lo], implTab)
  ELSE LET mid == (lo + hi) \div 2 IN
       dataLoop(dataLoop(set, arch, dataTab, implTab, lo, mid),
                arch, dataTab, implTab, mid + 1, hi)

(* unusedStep without `inst.Opcode = u.opcode`. *)
unusedStep_noOpcode(set, arch, u) ==
  [set EXCEPT !.instructions[u.opcode] =
     [Name |-> unusedName, Mode |-> u.mode, Opcode |-> @.Opcode,
      Length |-> u.length, Cycles |-> u.cycles, BPCycles |-> 0,
      fn |-> IF arch = NMOS THEN "unusedn" ELSE "unusedc"]]

(* unusedStep without `inst.fn = ...`: the slot keeps its nil handler. *)
unusedStep_noHandler(set, arch, u) ==
  [set EXCEPT !.instructions[u.opcode] =
     [Name |-> unusedName, Mode |-> u.mode, Opcode |-> u.opcode,
      Length |-> u.length, Cycles |-> u.cycles, BPCycles |-> 0,
      fn |-> @.fn]]

(* One iteration of `for _, u := range unusedData`. *)
unusedStep(set, arch, u) ==
  [set EXCEPT !.instructions[u.opcode] =
     [Name |-> unusedName, Mode |-> u.mode, Opcode |-> u.opcode,
      Length |-> u.length, Cycles |-> u.cycles, BPCycles |-> 0,
      fn |-> IF arch = NMOS THEN "unusedn" ELSE "unusedc"]]

RECURSIVE unusedLoop(_, _, _, _, _)
unusedLoop(set, arch, unusedTab, lo, hi) ==
  IF lo > hi \/ set.panic
  THEN set
  ELSE IF lo = hi
  THEN unusedStep(set, arch, unusedTab[lo])
  ELSE LET mid == (lo + hi) \div 2 IN
       unusedLoop(unusedLoop(set, arch, unusedTab, lo, mid),
                  arch, unusedTab, mid + 1, hi)

(* The final loop: an unpopulated slot is the 'missing instruction' panic. *)
missingInstruction(set) == \E b \in Byte : set.instructions[b].Name = ""

buildInstructionSet(arch, dataTab, unusedTab, implTab) ==
  LET set0 == [Arch |-> arch,
               instructions |-> [b \in Byte |-> Instruction],
               variants |-> <<>>,
               panic |-> FALSE]
      set1 == dataLoop(set0, arch, dataTab, implTab, 1, Len(dataTab))
      set2 == unusedLoop(set1, arch, unusedTab, 1, Len(unusedTab))
  IN  IF set2.panic \/ missingInstruction(set2)
      THEN [set2 EXCEPT !.panic = TRUE]
      ELSE set2

(* The table of the package the CPU below dispatches through. *)
newInstructionSet(arch) == buildInstructionSet(arch, data, unusedData, impl)

(* The table of the package under src/cpu. *)
cpu_newInstructionSet(arch) ==
  buildInstructionSet(arch, cpu_data, cpu_unusedData, cpu_impl)

Lookup(set, opcode) == set.instructions[opcode]

(***************************************************************************)
(* Mnemonic lookup                                                         *)
(***************************************************************************)
(* A Go string is the sequence of its bytes; Spelling gives the bytes of
   each name that occurs in the tables (ASCII codes). *)
Spelling ==
  ("ADI" :> <<65, 68, 73>>) @@
  ("ADI0" :> <<65, 68, 73, 48>>) @@
  ("ADI1" :> <<65, 68, 73, 49>>) @@
  ("ADI2" :> <<65, 68, 73, 50>>) @@
  ("ADI3" :> <<65, 68, 73, 51>>) @@
  ("ADI4" :> <<65, 68, 73, 52>>) @@
  ("ADI5" :> <<65, 68, 73, 53>>) @@
  ("ADI6" :> <<65, 68, 73, 54>>) @@
  ("ADI7" :> <<65, 68, 73, 55>>) @@
  ("ADIC" :> <<65, 68, 73, 67>>) @@
  ("ADM" :> <<65, 68, 77>>) @@
  ("ADMC" :> <<65, 68, 77, 67>>) @@
  ("ADR" :> <<65, 68, 82>>) @@
  ("ADRC" :> <<65, 68, 82, 67>>) @@
  ("AND" :> <<65, 78, 68>>) @@
  ("ANI" :> <<65, 78, 73>>) @@
  ("CALL" :> <<67, 65, 76, 76>>) @@
  ("CMP" :> <<67, 77, 80>>) @@
  ("CPSR" :> <<67, 80, 83, 82>>) @@
  ("DEC" :> <<68, 69, 67>>) @@
  ("EX" :> <<69, 88>>) @@
  ("HALT" :> <<72, 65, 76, 84>>) @@
  ("INC" :> <<73, 78, 67>>) @@
  ("LBR" :> <<76, 66, 82>>) @@
  ("LBRC" :> <<76, 66, 82, 67>>) @@
  ("LBRQ" :> <<76, 66, 82, 81>>) @@
  ("LBRZ" :> <<76, 66, 82, 90>>) @@
  ("LDI" :> <<76, 68, 73>>) @@
  ("LDI0" :> <<76, 68, 73, 48>>) @@
  ("LDI1" :> <<76, 68, 73, 49>>) @@
  ("LDI2" :> <<76, 68, 73, 50>>) @@
  ("LDI3" :> <<76, 68, 73, 51>>) @@
  ("LDI4" :> <<76, 68, 73, 52>>) @@
  ("LDI5" :> <<76, 68, 73, 53>>) @@
  ("LDI6" :> <<76, 68, 73, 54>>) @@
  ("LDI7" :> <<76, 68, 73, 55>>) @@
  ("LDM" :> <<76, 68, 77>>) @@
  ("NOP" :> <<78, 79, 80>>) @@
  ("OR" :> <<79, 82>>) @@
  ("ORI" :> <<79, 82, 73>>) @@
  ("POP" :> <<80, 79, 80>>) @@
  ("POP0" :> <<80, 79, 80, 48>>) @@
  ("POP1" :> <<80, 79, 80, 49>>) @@
  ("POP2" :> <<80, 79, 80, 50>>) @@
  ("POP3" :> <<80, 79, 80, 51>>) @@
  ("POP4" :> <<80, 79, 80, 52>>) @@
  ("POP5" :> <<80, 79, 80, 53>>) @@
  ("POP6" :> <<80, 79, 80, 54>>) @@
  ("POP7" :> <<80, 79, 80, 55>>) @@
  ("PUSH" :> <<80, 85, 83, 72>>) @@
  ("PUSH0" :> <<80, 85, 83, 72, 48>>) @@
  ("PUSH1" :> <<80, 85, 83, 72, 49>>) @@
  ("PUSH2" :> <<80, 85, 83, 72, 50>>) @@
  ("PUSH3" :> <<80, 85, 83, 72, 51>>) @@
  ("PUSH4" :> <<80, 85, 83, 72, 52>>) @@
  ("PUSH5" :> <<80, 85, 83, 72, 53>>) @@
  ("PUSH6" :> <<80, 85, 83, 72, 54>>) @@
  ("PUSH7" :> <<80, 85, 83, 72, 55>>) @@
  ("RESETQ" :> <<82, 69, 83, 69, 84, 81>>) @@
  ("RESETQ0" :> <<82, 69, 83, 69, 84, 81, 48>>) @@
  ("RESETQ1" :> <<82, 69, 83, 69, 84, 81, 49>>) @@
  ("RESETQ2" :> <<82, 69, 83, 69, 84, 81, 50>>) @@
  ("RESETQ3" :> <<82, 69, 83, 69, 84, 81, 51>>) @@
  ("RESETQ4" :> <<82, 69, 83, 69, 84, 81, 52>>) @@
  ("RESETQ5" :> <<82, 69, 83, 69, 84, 81, 53>>) @@
  ("RESETQ6" :> <<82, 69, 83, 69, 84, 81, 54>>) @@
  ("RESETQ7" :> <<82, 69, 83, 69, 84, 81, 55>>) @@
  ("RET" :> <<82, 69, 84>>) @@
  ("SETQ" :> <<83, 69, 84, 81>>) @@
  ("SETQ0" :> <<83, 69, 84, 81, 48>>) @@
  ("SETQ1" :> <<83, 69, 84, 81, 49>>) @@
  ("SETQ2" :> <<83, 69, 84, 81, 50>>) @@
  ("SETQ3" :> <<83, 69, 84, 81, 51>>) @@
  ("SETQ4" :> <<83, 69, 84, 81, 52>>) @@
  ("SETQ5" :> <<83, 69, 84, 81, 53>>) @@
  ("SETQ6" :> <<83, 69, 84, 81, 54>>) @@
  ("SETQ7" :> <<83, 69, 84, 81, 55>>) @@
  ("SHL" :> <<83, 72, 76>>) @@
  ("SHLC" :> <<83, 72, 76, 67>>) @@
  ("SHR" :> <<83, 72, 82>>) @@
  ("SHRC" :> <<83, 72, 82, 67>>) @@
  ("SPSR" :> <<83, 80, 83, 82>>) @@
  ("STI" :> <<83, 84, 73>>) @@
  ("STI0" :> <<83, 84, 73, 48>>) @@
  ("STI1" :> <<83, 84, 73, 49>>) @@
  ("STI2" :> <<83, 84, 73, 50>>) @@
  ("STI3" :> <<83, 84, 73, 51>>) @@
  ("STI4" :> <<83, 84, 73, 52>>) @@
  ("STI5" :> <<83, 84, 73, 53>>) @@
  ("STI6" :> <<83, 84, 73, 54>>) @@
  ("STI7" :> <<83, 84, 73, 55>>) @@
  ("SUB" :> <<83, 85, 66>>) @@
  ("SUBC" :> <<83, 85, 66, 67>>) @@
  ("SUBI" :> <<83, 85, 66, 73>>) @@
  ("SUBIC" :> <<83, 85, 66, 73, 67>>) @@
  ("SUBM" :> <<83, 85, 66, 77>>) @@
  ("SUBMC" :> <<83, 85, 66, 77, 67>>) @@
  ("XOR" :> <<88, 79, 82>>) @@
  ("XRI" :> <<88, 82, 73>>) @@
  ("???" :> <<63, 63, 63>>)

Chars(name) == Spelling[name]

(* strings.ToUpper on an ASCII string: 'a'..'z' become 'A'..'Z', every
   other byte is kept. *)
ToUpper(s) == [i \in DOMAIN s |-> IF s[i] \in 97..122 THEN s[i] - 32 ELSE s[i]]

ToLower(s) == [i \in DOMAIN s |-> IF s[i] \in 65..90 THEN s[i] + 32 ELSE s[i]]

(* s.variants[key]: the entry whose key has exactly these bytes, the nil
   slice when there is none. *)
variantsAt(set, key) ==
  LET ks == {n \in DOMAIN set.variants : Chars(n) = key} IN
  IF ks = {} THEN <<>> ELSE set.variants[CHOOSE n \in ks : TRUE]

(* GetInstructions(name): the descriptors, as the opcodes of their slots. *)
GetInstructions(set, name) == variantsAt(set, ToUpper(name))


(***************************************************************************)
(* Memory: a flat 64 KiB store, zero where never written; only the cells   *)
(* that have been stored are kept.                                         *)
(***************************************************************************)
NewFlatMemory == <<>>

LoadByte(m, addr) == IF addr \in DOMAIN m THEN m[addr] ELSE 0

StoreByte(m, addr, v) == (addr :> v) @@ m

LoadBytes(m, addr, n) == [i \in 1..n |-> LoadByte(m, ToWord(addr + i - 1))]

RECURSIVE StoreBytes(_, _, _)
StoreBytes(m, addr, b) ==
  IF b = <<>> THEN m
  ELSE StoreBytes(StoreByte(m, addr, Head(b)), ToWord(addr + 1), Tail(b))

LoadAddress(m, addr) ==
  LoadByte(m, addr) * 256 + LoadByte(m, ToWord(addr + 1))

(***************************************************************************)
(* Registers and small helpers                                             *)
(***************************************************************************)
RegIndex == 0..7

(* Registers.Init: general registers zero, SP = $FF, all flags false. *)
RegistersInit ==
  [R |-> [i \in RegIndex |-> 0], SP |-> 255, PC |-> 0, Q |-> 0,
   Carry |-> FALSE, Zero |-> FALSE, InterruptDisable |-> FALSE,
   Decimal |-> FALSE, Break |-> FALSE, Overflow |-> FALSE, Sign |-> FALSE]

CarryBit == 1

ZeroBit == 2

InterruptDisableBit == 4

DecimalBit == 8

BreakBit == 16

OverflowBit == 64

SignBit == 128

(* stackAddress without the page: the offset alone. *)
stackAddress_zeroPage(sp) == sp

stackAddress(sp) == 256 + sp

boolToByte(b) == IF b THEN 1 ELSE 0

(* Big-endian address of a two-byte operand. *)
operandToAddress(operand) ==
  IF Len(operand) = 2 THEN operand[1] * 256 + operand[2]
  ELSE IF Len(operand) = 1 THEN operand[1]
  ELSE 0

vectorReset == 65532

(***************************************************************************)
(* The CPU. A CPU value c is the Go struct: c.Reg, c.Mem, c.Cycles,        *)
(* c.LastPC, c.Arch; c.panic is "" while the call in progress has not      *)
(* panicked and the panic message afterwards.                              *)
(***************************************************************************)
NoPanic == ""

panic(c, msg) == IF c.panic = NoPanic THEN [c EXCEPT !.panic = msg] ELSE c

storeByteNormal(c, addr, v) == [c EXCEPT !.Mem = StoreByte(@, addr, v)]

(* The debugger a CPU points to: whether one is attached, and the calls of
   its two notification methods it has received, in order. *)
NoDebugger == [attached |-> FALSE, onDataStore |-> <<>>, onUpdatePC |-> <<>>]

(* Debugger.onDataStore and Debugger.onUpdatePC: the debugger takes note of
   the call and leaves the CPU alone. *)
onDataStore(c, addr, v) ==
  [c EXCEPT !.debugger.onDataStore = Append(@, <<addr, v>>)]

onUpdatePC(c, addr) ==
  [c EXCEPT !.debugger.onUpdatePC =
              Append(@, [addr |-> addr, Cycles |-> c.Cycles, Reg |-> c.Reg])]

(* storeByteDebugger that calls the hook and does not store. *)
storeByteDebugger_hookOnly(c, addr, v) == onDataStore(c, addr, v)

storeByteDebugger(c, addr, v) ==
  LET c1 == onDataStore(c, addr, v)
  IN  [c1 EXCEPT !.Mem = StoreByte(@, addr, v)]

(* cpu.storeByte(cpu, addr, v): the call through the function field. *)
storeByte(c, addr, v) ==
  IF c.storeByte = "storeByteDebugger" THEN storeByteDebugger(c, addr, v)
  ELSE storeByteNormal(c, addr, v)

(* cpu.load: ok is FALSE where the Go code panics (a mode outside the
   switch, or an operand slice too short for the index). *)
load(c, mode, operand) ==
  CASE mode = "IMM" ->
         IF Len(operand) >= 1 THEN [ok |-> TRUE, v |-> operand[1]]
         ELSE [ok |-> FALSE, v |-> 0]
    [] mode = "ZPG" ->
         [ok |-> TRUE, v |-> LoadByte(c.Mem, operandToAddress(operand))]
    [] mode = "ABS" ->
         [ok |-> TRUE, v |-> LoadByte(c.Mem, operandToAddress(operand))]
    [] OTHER -> [ok |-> FALSE, v |-> 0]

loadPanic(mode, operand) ==
  IF mode = "IMM" THEN "index out of range" ELSE "Invalid addressing mode"

(* cpu.store *)
store(c, mode, operand, v) ==
  CASE mode = "ZPG" -> storeByte(c, operandToAddress(operand), v)
    [] mode = "ABS" -> storeByte(c, operandToAddress(operand), v)
    [] OTHER -> panic(c, "Invalid addressing mode")

(* push that moves SP before it stores. *)
push_decrementFirst(c, v) ==
  LET c1 == [c EXCEPT !.Reg.SP = ToByte(@ + 255)]
  IN  storeByte(c1, stackAddress(c1.Reg.SP), v)

push(c, v) ==
  LET c1 == storeByte(c, stackAddress(c.Reg.SP), v)
  IN  [c1 EXCEPT !.Reg.SP = ToByte(@ + 255)]

(* cpu.pop: the popped byte is LoadByte(popSP(c).Mem, stackAddress(SP)). *)
popSP(c) == [c EXCEPT !.Reg.SP = ToByte(@ + 1)]

popValue(c) == LoadByte(c.Mem, stackAddress(ToByte(c.Reg.SP + 1)))

(* pushAddress that pushes the low byte first. *)
pushAddress_lowFirst(c, addr) == push(push(c, addr % 256), addr \div 256)

pushAddress(c, addr) == push(push(c, addr \div 256), addr % 256)

popAddress(c) ==
  LET lo == popValue(c)
      c1 == popSP(c)
      hi == popValue(c1)
  IN  [c |-> popSP(c1), addr |-> lo + hi * 256]

bitSet(b, nbit) == BitOr(b, Pow2(nbit))

bitClear(b, nbit) == BitAnd(b, 255 - Pow2(nbit))

updateNZ(c, v) ==
  [c EXCEPT !.Reg.Zero = (v = 0), !.Reg.Sign = (BitAnd(v, 128) # 0)]

getRegXY(v) == [x |-> BitAnd(v, 112) \div 16, y |-> BitAnd(v, 7)]

getReg(v) == BitAnd(v, 7)

(* reset that reads the vector low byte first. *)
reset_littleEndian(c) ==
  [c EXCEPT !.Reg.PC = LoadByte(c.Mem, vectorReset)
                         + 256 * LoadByte(c.Mem, ToWord(vectorReset + 1))]

reset(c) == [c EXCEPT !.Reg.PC = LoadAddress(c.Mem, vectorReset)]

twosCompAdd(a, b) == 0

(***************************************************************************)
(* Instruction handlers: handler(c, inst, operand) is the CPU after the    *)
(* handler has run on CPU c.                                               *)
(***************************************************************************)
adi(c, inst, operand) ==
  LET l == load(c, inst.Mode, operand) IN
  IF ~l.ok THEN panic(c, loadPanic(inst.Mode, operand))
  ELSE LET r   == getReg(inst.Opcode)
           sum == twosCompAdd(c.Reg.R[r], l.v)
       IN  [c EXCEPT !.Reg.R[r] = sum]

adm(c, inst, operand) ==
  LET r == getReg(inst.Opcode)
      l == load(c, inst.Mode, operand)
  IN  IF ~l.ok THEN panic(c, loadPanic(inst.Mode, operand))
      ELSE LET sum == twosCompAdd(l.v, c.Reg.R[r])
           IN  [c EXCEPT !.Reg.R[r] = sum]

(* adr that leaves the flags alone. *)
adr_noUpdateNZ(c, inst, operand) ==
  LET l == load(c, inst.Mode, operand) IN
  IF ~l.ok THEN panic(c, loadPanic(inst.Mode, operand))
  ELSE LET xy == getRegXY(l.v)
           v  == ToByte(c.Reg.R[xy.x] + c.Reg.R[xy.y])
       IN  [c EXCEPT !.Reg.R[xy.x] = v]

(* adr that also sets Carry to the carry out of the 8-bit sum. *)
adr_carryOut(c, inst, operand) ==
  LET l == load(c, inst.Mode, operand) IN
  IF ~l.ok THEN panic(c, loadPanic(inst.Mode, operand))
  ELSE LET xy == getRegXY(l.v)
           v  == ToByte(c.Reg.R[xy.x] + c.Reg.R[xy.y])
       IN  updateNZ([c EXCEPT !.Reg.R[xy.x] = v,
                              !.Reg.Carry = (c.Reg.R[xy.x] + c.Reg.R[xy.y] >= 256)], v)

adr(c, inst, operand) ==
  LET l == load(c, inst.Mode, operand) IN
  IF ~l.ok THEN panic(c, loadPanic(inst.Mode, operand))
  ELSE LET xy == getRegXY(l.v)
           v  == ToByte(c.Reg.R[xy.x] + c.Reg.R[xy.y])
       IN  updateNZ([c EXCEPT !.Reg.R[xy.x] = v], v)

and(c, inst, operand) ==
  LET l == load(c, inst.Mode, operand) IN
  IF ~l.ok THEN panic(c, loadPanic(inst.Mode, operand))
  ELSE LET xy == getRegXY(l.v)
           v  == BitAnd(c.Reg.R[xy.x], c.Reg.R[xy.y])
       IN  updateNZ([c EXCEPT !.Reg.R[xy.x] = v], v)

ani(c, inst, operand) ==
  LET l == load(c, inst.Mode, operand) IN
  IF ~l.ok THEN panic(c, loadPanic(inst.Mode, operand))
  ELSE LET r      == getReg(inst.Opcode)
           result == BitAnd(l.v, r)
       IN  updateNZ([c EXCEPT !.Reg.R[r] = result], result)

call(c, inst, operand) == c

(* cmp in the manner of the 6502: Zero and Sign from the difference. *)
cmp_updatesNZ(c, inst, operand) ==
  LET l == load(c, inst.Mode, operand) IN
  IF ~l.ok THEN panic(c, loadPanic(inst.Mode, operand))
  ELSE LET xy == getRegXY(l.v) IN
       updateNZ([c EXCEPT !.Reg.Carry = (c.Reg.R[xy.x] = c.Reg.R[xy.y])],
                ToByte(c.Reg.R[xy.x] - c.Reg.R[xy.y] + 256))

(* cmp that raises Carry on equality and never lowers it. *)
cmp_setOnly(c, inst, operand) ==
  LET l == load(c, inst.Mode, operand) IN
  IF ~l.ok THEN panic(c, loadPanic(inst.Mode, operand))
  ELSE LET xy == getRegXY(l.v) IN
       IF c.Reg.R[xy.x] = c.Reg.R[xy.y] THEN [c EXCEPT !.Reg.Carry = TRUE]
       ELSE c

cmp(c, inst, operand) ==
  LET l == load(c, inst.Mode, operand) IN
  IF ~l.ok THEN panic(c, loadPanic(inst.Mode, operand))
  ELSE LET xy == getRegXY(l.v)
       IN  [c EXCEPT !.Reg.Carry = (c.Reg.R[xy.x] = c.Reg.R[xy.y])]

dec(c, inst, operand) ==
  LET r == getReg(inst.Opcode)
      v == ToByte(c.Reg.R[r] + 255)
  IN  [updateNZ(c, v) EXCEPT !.Reg.R[r] = v]

(* ex that copies R[y] to R[x] and then R[x] back to R[y]. *)
ex_noTemp(c, inst, operand) ==
  LET l == load(c, inst.Mode, operand) IN
  IF ~l.ok THEN panic(c, loadPanic(inst.Mode, operand))
  ELSE LET xy == getRegXY(l.v) IN
       [c EXCEPT !.Reg.R[xy.x] = c.Reg.R[xy.y]]

ex(c, inst, operand) ==
  LET l == load(c, inst.Mode, operand) IN
  IF ~l.ok THEN panic(c, loadPanic(inst.Mode, operand))
  ELSE LET xy    == getRegXY(l.v)
           xtemp == c.Reg.R[xy.x]
           ytemp == c.Reg.R[xy.y]
           c1    == [c EXCEPT !.Reg.R[xy.x] = ytemp]
       IN  [c1 EXCEPT !.Reg.R[xy.y] = xtemp]

halt(c, inst, operand) == c

inc(c, inst, operand) ==
  LET l == load(c, inst.Mode, operand) IN
  IF ~l.ok THEN panic(c, loadPanic(inst.Mode, operand))
  ELSE LET v == ToByte(l.v + 1)
       IN  store(updateNZ(c, v), inst.Mode, operand, v)

lbr(c, inst, operand) == [c EXCEPT !.Reg.PC = operandToAddress(operand)]

lbrc(c, inst, operand) == [c EXCEPT !.Reg.PC = operandToAddress(operand)]

lbrq(c, inst, operand) == c

(* lbrz that does not test Zero. *)
lbrz_always(c, inst, operand) ==
  [c EXCEPT !.Reg.PC = operandToAddress(operand)]

lbrz(c, inst, operand) ==
  IF c.Reg.Zero THEN [c EXCEPT !.Reg.PC = operandToAddress(operand)] ELSE c

(* ldi that updates Zero and Sign from the loaded value. *)
ldi_updatesNZ(c, inst, operand) ==
  LET l == load(c, inst.Mode, operand) IN
  IF ~l.ok THEN panic(c, loadPanic(inst.Mode, operand))
  ELSE updateNZ([c EXCEPT !.Reg.R[getReg(inst.Opcode)] = l.v], l.v)

ldi(c, inst, operand) ==
  LET l == load(c, inst.Mode, operand) IN
  IF ~l.ok THEN panic(c, loadPanic(inst.Mode, operand))
  ELSE [c EXCEPT !.Reg.R[getReg(inst.Opcode)] = l.v]

ldm(c, inst, operand) == c

nop(c, inst, operand) == c

or(c, inst, operand) ==
  LET l == load(c, inst.Mode, operand) IN
  IF ~l.ok THEN panic(c, loadPanic(inst.Mode, operand))
  ELSE LET xy     == getRegXY(l.v)
           result == BitOr(c.Reg.R[xy.x], c.Reg.R[xy.y])
       IN  updateNZ([c EXCEPT !.Reg.R[xy.x] = result], result)

ori(c, inst, operand) ==
  LET l == load(c, inst.Mode, operand) IN
  IF ~l.ok THEN panic(c, loadPanic(inst.Mode, operand))
  ELSE LET r      == getReg(inst.Opcode)
           result == BitOr(l.v, r)
       IN  updateNZ([c EXCEPT !.Reg.R[r] = result], result)

pushr(c, inst, operand) == push(c, c.Reg.R[getReg(inst.Opcode)])

popr(c, inst, operand) ==
  LET r == getReg(inst.Opcode)
      v == popValue(c)
  IN  updateNZ([popSP(c) EXCEPT !.Reg.R[r] = v], v)

resetq(c, inst, operand) ==
  [c EXCEPT !.Reg.Q = bitClear(@, getReg(inst.Opcode))]

ret(c, inst, operand) == c

(* setq that raises line q and drops the others. *)
setq_only(c, inst, operand) ==
  [c EXCEPT !.Reg.Q = Pow2(getReg(inst.Opcode))]

setq(c, inst, operand) ==
  [c EXCEPT !.Reg.Q = bitSet(@, getReg(inst.Opcode))]

(* shl that takes the carry from the bit shifted in. *)
shl_carryFromBit0(c, inst, operand) ==
  LET r == getReg(inst.Opcode)
      v == ToByte(c.Reg.R[r] * 2)
  IN  updateNZ([c EXCEPT !.Reg.Carry = (BitAnd(c.Reg.R[r], 1) = 1),
                         !.Reg.R[r] = v], v)

shl(c, inst, operand) ==
  LET r  == getReg(inst.Opcode)
      cy == (BitAnd(c.Reg.R[r], 128) = 128)
      v  == ToByte(c.Reg.R[r] * 2)
  IN  updateNZ([c EXCEPT !.Reg.Carry = cy, !.Reg.R[r] = v], v)

(* shlc as a rotate: the bit shifted out goes to Carry. *)
shlc_rotate(c, inst, operand) ==
  LET r == getReg(inst.Opcode)
      v == ToByte(c.Reg.R[r] * 2 + boolToByte(c.Reg.Carry))
  IN  updateNZ([c EXCEPT !.Reg.Carry = (c.Reg.R[r] >= 128),
                         !.Reg.R[r] = v], v)

shlc(c, inst, operand) ==
  LET r == getReg(inst.Opcode)
      v == ToByte(ToByte(c.Reg.R[r] * 2) + boolToByte(c.Reg.Carry))
  IN  updateNZ([c EXCEPT !.Reg.R[r] = v], v)

shr(c, inst, operand) ==
  LET r  == getReg(inst.Opcode)
      cy == (BitAnd(c.Reg.R[r], 1) = 1)
      v  == c.Reg.R[r] \div 2
  IN  updateNZ([c EXCEPT !.Reg.Carry = cy, !.Reg.R[r] = v], v)

(* shrc that shifts a zero in. *)
shrc_zeroIn(c, inst, operand) ==
  LET r == getReg(inst.Opcode)
      v == c.Reg.R[r] \div 2
  IN  updateNZ([c EXCEPT !.Reg.R[r] = v], v)

shrc(c, inst, operand) ==
  LET r  == getReg(inst.Opcode)
      v0 == c.Reg.R[r] \div 2
      v  == IF c.Reg.Carry THEN BitOr(v0, 128) ELSE v0
  IN  updateNZ([c EXCEPT !.Reg.R[r] = v], v)

spsr(c, inst, operand) ==
  LET l == load(c, inst.Mode, operand) IN
  IF ~l.ok THEN panic(c, loadPanic(inst.Mode, operand))
  ELSE CASE l.v = CarryBit            -> [c EXCEPT !.Reg.Carry = TRUE]
         [] l.v = ZeroBit             -> [c EXCEPT !.Reg.Zero = TRUE]
         [] l.v = SignBit             -> [c EXCEPT !.Reg.Sign = TRUE]
         [] l.v = OverflowBit         -> [c EXCEPT !.Reg.Overflow = TRUE]
         [] l.v = BreakBit            -> [c EXCEPT !.Reg.Decimal = TRUE]
         [] l.v = InterruptDisableBit -> [c EXCEPT !.Reg.InterruptDisable = TRUE]
         [] l.v = DecimalBit          -> [c EXCEPT !.Reg.Decimal = TRUE]
         [] OTHER                     -> c

cpsr(c, inst, operand) ==
  LET l == load(c, inst.Mode, operand) IN
  IF ~l.ok THEN panic(c, loadPanic(inst.Mode, operand))
  ELSE CASE l.v = CarryBit            -> [c EXCEPT !.Reg.Carry = FALSE]
         [] l.v = ZeroBit             -> [c EXCEPT !.Reg.Zero = FALSE]
         [] l.v = SignBit             -> [c EXCEPT !.Reg.Sign = FALSE]
         [] l.v = OverflowBit         -> [c EXCEPT !.Reg.Overflow = FALSE]
         [] l.v = BreakBit            -> [c EXCEPT !.Reg.Decimal = FALSE]
         [] l.v = InterruptDisableBit -> [c EXCEPT !.Reg.InterruptDisable = FALSE]
         [] l.v = DecimalBit          -> [c EXCEPT !.Reg.Decimal = FALSE]
         [] OTHER                     -> c

sti(c, inst, operand) ==
  LET r    == getReg(inst.Opcode)
      addr == operandToAddress(operand)
  IN  [c EXCEPT !.Mem = StoreByte(@, addr, c.Reg.R[r])]

sub(c, inst, operand) == c

subi(c, inst, operand) == c

subm(c, inst, operand) == c

xor(c, inst, operand) ==
  LET l == load(c, inst.Mode, operand) IN
  IF ~l.ok THEN panic(c, loadPanic(inst.Mode, operand))
  ELSE LET xy     == getRegXY(l.v)
           result == BitXor(c.Reg.R[xy.x], c.Reg.R[xy.y])
       IN  updateNZ([c EXCEPT !.Reg.R[xy.x] = result], result)

xri(c, inst, operand) ==
  LET l == load(c, inst.Mode, operand) IN
  IF ~l.ok THEN panic(c, loadPanic(inst.Mode, operand))
  ELSE LET r      == getReg(inst.Opcode)
           result == BitXor(l.v, r)
       IN  updateNZ([c EXCEPT !.Reg.R[r] = result], result)

(* An unused-slot handler that resets the CPU instead of doing nothing. *)
unusedn_resets(c, inst, operand) == reset(c)

unusedn(c, inst, operand) == c

(* unusedc that skips an operand byte. *)
unusedc_skipsOperand(c, inst, operand) ==
  [c EXCEPT !.Reg.PC = ToWord(@ + 1)]

unusedc(c, inst, operand) == c

(* inst.fn(cpu, inst, operand): dispatch through the handler reference. *)
callHandler(c, inst, operand) ==
  CASE inst.fn = "adi"     -> adi(c, inst, operand)
    [] inst.fn = "adm"     -> adm(c, inst, operand)
    [] inst.fn = "adr"     -> adr(c, inst, operand)
    [] inst.fn = "and"     -> and(c, inst, operand)
    [] inst.fn = "ani"     -> ani(c, inst, operand)
    [] inst.fn = "call"    -> call(c, inst, operand)
    [] inst.fn = "cmp"     -> cmp(c, inst, operand)
    [] inst.fn = "cpsr"    -> cpsr(c, inst, operand)
    [] inst.fn = "dec"     -> dec(c, inst, operand)
    [] inst.fn = "ex"      -> ex(c, inst, operand)
    [] inst.fn = "halt"    -> halt(c, inst, operand)
    [] inst.fn = "inc"     -> inc(c, inst, operand)
    [] inst.fn = "lbr"     -> lbr(c, inst, operand)
    [] inst.fn = "lbrc"    -> lbrc(c, inst, operand)
    [] inst.fn = "lbrq"    -> lbrq(c, inst, operand)
    [] inst.fn = "lbrz"    -> lbrz(c, inst, operand)
    [] inst.fn = "ldi"     -> ldi(c, inst, operand)
    [] inst.fn = "ldm"     -> ldm(c, inst, operand)
    [] inst.fn = "nop"     -> nop(c, inst, operand)
    [] inst.fn = "or"      -> or(c, inst, operand)
    [] inst.fn = "ori"     -> ori(c, inst, operand)
    [] inst.fn = "popr"    -> popr(c, inst, operand)
    [] inst.fn = "pushr"   -> pushr(c, inst, operand)
    [] inst.fn = "resetq"  -> resetq(c, inst, operand)
    [] inst.fn = "ret"     -> ret(c, inst, operand)
    [] inst.fn = "setq"    -> setq(c, inst, operand)
    [] inst.fn = "shl"     -> shl(c, inst, operand)
    [] inst.fn = "shlc"    -> shlc(c, inst, operand)
    [] inst.fn = "shr"     -> shr(c, inst, operand)
    [] inst.fn = "shrc"    -> shrc(c, inst, operand)
    [] inst.fn = "spsr"    -> spsr(c, inst, operand)
    [] inst.fn = "sti"     -> sti(c, inst, operand)
    [] inst.fn = "sub"     -> sub(c, inst, operand)
    [] inst.fn = "subi"    -> subi(c, inst, operand)
    [] inst.fn = "subm"    -> subm(c, inst, operand)
    [] inst.fn = "xor"     -> xor(c, inst, operand)
    [] inst.fn = "xri"     -> xri(c, inst, operand)
    [] inst.fn = "unusedn" -> unusedn(c, inst, operand)
    [] inst.fn = "unusedc" -> unusedc(c, inst, operand)

(***************************************************************************)
(* CPU construction and Step                                               *)
(***************************************************************************)
(* GetInstructionSet on the process-wide table instructionSets: sets maps
   each architecture whose table has been built to that table. *)
GetInstructionSet(sets, arch) ==
  IF arch \in DOMAIN sets THEN sets ELSE (arch :> newInstructionSet(arch)) @@ sets

NewCPU(arch, m) ==
  [Arch |-> arch, Reg |-> RegistersInit, Mem |-> m, Cycles |-> 0,
   LastPC |-> 0, debugger |-> NoDebugger, brkHandler |-> FALSE, onBrk |-> 0,
   storeByte |-> "storeByteNormal", panic |-> NoPanic]

(* cpu.brkHandler = handler *)
AttachBrkHandler(c) == [c EXCEPT !.brkHandler = TRUE]

AttachDebugger(c) ==
  [c EXCEPT !.debugger = [NoDebugger EXCEPT !.attached = TRUE],
            !.storeByte = "storeByteDebugger"]

DetachDebugger(c) ==
  [c EXCEPT !.debugger = NoDebugger, !.storeByte = "storeByteNormal"]

SetPC(c, addr) == [c EXCEPT !.Reg.PC = addr]

(* int8(b) of a byte b *)
Int8(b) == IF b < 128 THEN b ELSE b - 256

(* No handler of this instruction set sets cpu.pageCrossed or changes
   cpu.deltaCycles after Step has cleared them. *)
pageCrossed == FALSE

deltaCycles == 0

(* BrkHandler.OnBrk: an external handler, taken to leave the CPU alone;
   onBrk counts its calls. *)
OnBrk(c) == [c EXCEPT !.onBrk = @ + 1]

(* advancePC that steps over the opcode byte only. *)
advancePC_opcodeOnly(c, inst) ==
  [c EXCEPT !.LastPC = c.Reg.PC, !.Reg.PC = ToWord(@ + 1)]

(* Step: save LastPC and advance the PC past the instruction. *)
advancePC(c, inst) ==
  [c EXCEPT !.LastPC = c.Reg.PC, !.Reg.PC = ToWord(@ + inst.Length)]

(* Step: update the cycle counter once the handler has returned. *)
addCycles(c, inst) ==
  LET c3 == [c EXCEPT !.Cycles = @ + Int8(inst.Cycles) + deltaCycles]
  IN  IF pageCrossed THEN [c3 EXCEPT !.Cycles = @ + inst.BPCycles] ELSE c3

(* Step: tell the debugger, if there is one, where the PC now is. *)
updateDebugger(c) ==
  IF c.debugger.attached THEN onUpdatePC(c, c.Reg.PC) ELSE c

(* Step without the test for a BRK handler. *)
Step_noBrkHandler(c, set) ==
  LET opcode == LoadByte(c.Mem, c.Reg.PC)
      inst   == Lookup(set, opcode)
      n      == ToByte(inst.Length + 255)
  IN  IF inst.fn = "nil" THEN reset(c)
      ELSE IF n > 2 THEN panic(c, "slice bounds out of range")
      ELSE LET operand == LoadBytes(c.Mem, ToWord(c.Reg.PC + 1), n)
               c1 == advancePC(c, inst)
               c2 == callHandler(c1, inst, operand)
           IN  IF c2.panic # NoPanic THEN c2
               ELSE updateDebugger(addCycles(c2, inst))

(* CPU.Step on CPU c dispatching through table set. *)
Step(c, set) ==
  LET opcode == LoadByte(c.Mem, c.Reg.PC)
      inst   == Lookup(set, opcode)
      n      == ToByte(inst.Length + 255)
  IN  IF inst.fn = "nil" THEN reset(c)
      ELSE IF inst.Opcode = 0 /\ c.brkHandler THEN OnBrk(c)
      ELSE IF n > 2 THEN panic(c, "slice bounds out of range")
      ELSE LET operand == LoadBytes(c.Mem, ToWord(c.Reg.PC + 1), n)
               c1 == advancePC(c, inst)
               c2 == callHandler(c1, inst, operand)
           IN  IF c2.panic # NoPanic THEN c2
               ELSE updateDebugger(addCycles(c2, inst))

(***************************************************************************)
(* Bounds and inputs of the model                                          *)
(***************************************************************************)
(* Steps run on a one-instruction program. *)
MaxSteps == 2

(* Deepest run of pushes followed by as many pops. *)
MaxDepth == 3

(* Load address used by the tests. *)
Origin == 4096

(* Callers of GetInstructionSet that may be under way at once. *)
MaxCallers == 2

Callers == 1..MaxCallers

(* Operand bytes that follow the opcode of a one-instruction program. *)
OperandPairs ==
  { <<0, 0>>, <<1, 255>>, <<16, 0>>, <<21, 0>>, <<255, 255>> }

(* Register files, stack pointers and flag settings written by the host
   before a run. *)
RegFiles ==
  { <<17, 34, 51, 68, 85, 102, 119, 136>>,
    <<0, 1, 127, 128, 255, 254, 128, 1>> }

Presets ==
  { [R |-> [i \in RegIndex |-> rf[i + 1]], SP |-> sp, Q |-> 165,
     Carry |-> f[1], Zero |-> f[2], Sign |-> f[3]] :
      rf \in RegFiles, sp \in {255, 0},
      f \in { <<FALSE, FALSE, FALSE>>, <<TRUE, TRUE, FALSE>>,
              <<FALSE, FALSE, TRUE>> } }

OneInstruction ==
  { [code |-> <<op>> \o p, steps |-> MaxSteps] :
      op \in Byte, p \in OperandPairs }

PushPop ==
  { [code |-> <<64 + r, 72 + q>>, steps |-> 2] : r \in RegIndex, q \in RegIndex }

PushesPops ==
  { [code |-> [i \in 1..(2 * n) |->
                 IF i <= n THEN 64 + ((r + i - 1) % 8)
                 ELSE 72 + ((r + i - 1) % 8)],
     steps |-> 2 * n] : r \in RegIndex, n \in 2..MaxDepth }

(* The programs of the test file, as assembled. *)
TestReg0 == [code |-> <<224, 94, 232, 21, 0>>, steps |-> 2]

TestStack ==
  [code |-> <<224, 17, 64, 224, 18, 64, 224, 19, 64,
              72, 232, 32, 0, 72, 232, 32, 1, 72, 232, 32, 2>>,
   steps |-> 12]

TestQ == [code |-> <<56, 57, 58, 59, 60, 61, 62, 63>>, steps |-> 8]

TestUnusedCPU1 == [code |-> <<6, 7, 28, 29, 30>>, steps |-> 5]

TestArithmetic == [code |-> <<224, 17, 225, 1, 128, 1>>, steps |-> 3]

Tests == {TestReg0, TestStack, TestQ, TestUnusedCPU1, TestArithmetic}

(* CALL $1004; NOP; RET *)
CallRet == [code |-> <<2, 16, 4, 0, 3>>, steps |-> 2]

(* ADR with every operand byte. *)
AddRegisters == { [code |-> <<128, v>>, steps |-> 1] : v \in Byte }

(* LDI r #v; STI r' addr *)
LoadStore ==
  { [code |-> <<224 + r, v, 232 + q, a[1], a[2]>>, steps |-> 2] :
      r \in RegIndex, q \in RegIndex, v \in {94, 0},
      a \in { <<21, 0>>, <<16, 3>> } }

(* Two instructions out of SETQ q and RESETQ q. *)
QOpcodes == (16..23) \cup (56..63)

QPairs == { [code |-> <<a, b>>, steps |-> 2] : a \in QOpcodes, b \in QOpcodes }

(* SETQ q or RESETQ q; LBRQ q $1500 *)
QBranch ==
  { [code |-> <<s + q, 176 + q, 21, 0>>, steps |-> 2] :
      s \in {16, 56}, q \in RegIndex }

(* STI r $1500; LDM r' $1500 *)
StoreLoad ==
  { [code |-> <<232 + r, 21, 0, 240 + q, 21, 0>>, steps |-> 2] :
      r \in RegIndex, q \in RegIndex }

(* CMP with every operand byte. *)
Compare == { [code |-> <<133, v>>, steps |-> 1] : v \in Byte }

(* EX v; EX v with every operand byte. *)
Exchange == { [code |-> <<132, v, 132, v>>, steps |-> 2] : v \in Byte }

(* LDI3 #b; then SHLC3, SHR3, SHRC3 or SHL3, for every byte b. *)
ShiftOpcodes == {32, 104, 112, 120}

Shifts ==
  { [code |-> <<227, b, op + 3>>, steps |-> 2] : b \in Byte, op \in ShiftOpcodes }

(* SPSR #m; CPSR #m for each status bit m. *)
SetClearStatus ==
  { [code |-> <<4, m, 5, m>>, steps |-> 2] : m \in {1, 2, 4, 8, 16, 64, 128} }

Programs ==
  OneInstruction \cup PushPop \cup PushesPops \cup Tests \cup {CallRet}
    \cup AddRegisters \cup LoadStore \cup QPairs \cup QBranch
    \cup StoreLoad \cup Compare \cup Exchange \cup Shifts \cup SetClearStatus

(***************************************************************************)
(* State                                                                   *)
(***************************************************************************)
VARIABLES
  instructionSets,  \* the process-wide tables, by architecture
  cpu,              \* the CPU under test
  phase,            \* "new", "poked", "run", "reset", "pushed", "popped": where the host is
  stepsLeft,        \* iterations of stepCPU's loop still to run
  trace,            \* the CPU as it was before each Step taken so far
  twin,             \* a second CPU instance: its states so far, latest last
  getters           \* the calls of GetInstructionSet under way

vars == <<instructionSets, cpu, phase, stepsLeft, trace, twin, getters>>

(* pc and arch: where each caller of GetInstructionSet is and the
   architecture it asked for; built: the tables built so far, each at an
   address of its own; address: the table instructionSets points to, by
   architecture; returned: the <<architecture, address>> pairs handed out. *)
GettersInit(arch) ==
  [pc       |-> [p \in Callers |-> "idle"],
   arch     |-> [p \in Callers |-> arch],
   built    |-> 1,
   address  |-> (arch :> 1),
   returned |-> {<<arch, 1>>}]

Init ==
  \E arch \in Architecture :
    /\ instructionSets = GetInstructionSet(<<>>, arch)
    /\ cpu = IF instructionSets[arch].panic
             THEN [NewCPU(arch, NewFlatMemory) EXCEPT !.panic = "missing instruction"]
             ELSE NewCPU(arch, NewFlatMemory)
    /\ phase = "new"
    /\ stepsLeft = 0
    /\ trace = <<>>
    /\ twin = <<>>
    /\ getters = GettersInit(arch)

(* The host writes registers and flags directly. *)
Poke ==
  /\ phase = "new"
  /\ cpu.panic = NoPanic
  /\ \E p \in Presets :
       cpu' = [cpu EXCEPT !.Reg.R = p.R, !.Reg.SP = p.SP, !.Reg.Q = p.Q,
                          !.Reg.Carry = p.Carry, !.Reg.Zero = p.Zero,
                          !.Reg.Sign = p.Sign]
  /\ phase' = "poked"
  /\ UNCHANGED <<instructionSets, stepsLeft, trace, twin, getters>>

(* loadCPU on one of the programs progs: store the program at the origin
   and point PC at it. *)
loadProgram(progs) ==
  /\ phase \in {"new", "poked"}
  /\ cpu.panic = NoPanic
  /\ \E p \in progs :
       /\ cpu' = SetPC([cpu EXCEPT !.Mem = StoreBytes(@, Origin, p.code)], Origin)
       /\ stepsLeft' = p.steps
  /\ phase' = "run"
  /\ UNCHANGED <<instructionSets, trace, twin, getters>>

loadCPU == loadProgram(Programs)

(* One iteration of stepCPU: cpu.Step(). *)
DoStep ==
  /\ phase = "run"
  /\ stepsLeft > 0
  /\ cpu.panic = NoPanic
  /\ cpu' = Step(cpu, instructionSets[cpu.Arch])
  /\ stepsLeft' = stepsLeft - 1
  /\ trace' = Append(trace, cpu)
  /\ UNCHANGED <<instructionSets, phase, twin, getters>>

Next == Poke \/ loadCPU \/ DoStep

Spec == Init /\ [][Next]_vars

(***************************************************************************)
(* The reset signal                                                        *)
(***************************************************************************)
(* Reset vectors the host may store at $FFFC. *)
ResetVectors == { <<16, 0>>, <<18, 52>>, <<0, 1>>, <<255, 255>> }

StoreVector ==
  /\ phase = "new"
  /\ cpu.panic = NoPanic
  /\ \E v \in ResetVectors :
       cpu' = [cpu EXCEPT !.Mem = StoreBytes(@, vectorReset, v)]
  /\ UNCHANGED <<instructionSets, phase, stepsLeft, trace, twin, getters>>

loadTests == loadProgram(Tests)

(* cpu.reset(), before a run, in the middle of it or after it. *)
Reset ==
  /\ phase # "reset"
  /\ cpu.panic = NoPanic
  /\ cpu' = reset(cpu)
  /\ trace' = Append(trace, cpu)
  /\ phase' = "reset"
  /\ stepsLeft' = 0
  /\ UNCHANGED <<instructionSets, twin, getters>>

NextReset == Poke \/ StoreVector \/ loadTests \/ DoStep \/ Reset

ResetSpec == Init /\ [][NextReset]_vars

(***************************************************************************)
(* Two CPU instances                                                       *)
(***************************************************************************)
(* One program for every opcode byte, and the programs of the tests. *)
TwinPrograms ==
  { p \in OneInstruction : p.code[2] = 21 /\ p.code[3] = 0 } \cup Tests

loadTwins == loadProgram(TwinPrograms)

(* The host makes a second CPU, NewCPU(arch, m) of either architecture on a
   memory m with the bytes of the first one's, and gives it the registers,
   flags and cycle count of the first. *)
NewTwin ==
  /\ phase = "run"
  /\ trace = <<>>
  /\ twin = <<>>
  /\ cpu.panic = NoPanic
  /\ \E arch \in Architecture :
       /\ instructionSets' = GetInstructionSet(instructionSets, arch)
       /\ twin' = << [NewCPU(arch, cpu.Mem) EXCEPT !.Reg = cpu.Reg,
                                                   !.Cycles = cpu.Cycles] >>
  /\ UNCHANGED <<cpu, phase, stepsLeft, trace, getters>>

(* One iteration of stepCPU on the second CPU. *)
StepTwin ==
  /\ twin # <<>>
  /\ Len(twin) <= Len(trace) + stepsLeft
  /\ twin[Len(twin)].panic = NoPanic
  /\ twin' = Append(twin, Step(twin[Len(twin)],
                               instructionSets[twin[Len(twin)].Arch]))
  /\ UNCHANGED <<instructionSets, cpu, phase, stepsLeft, trace, getters>>

NextTwin == Poke \/ loadTwins \/ NewTwin \/ DoStep \/ StepTwin

TwinSpec == Init /\ [][NextTwin]_vars

(***************************************************************************)
(* A CPU with a debugger                                                   *)
(***************************************************************************)
DebugPrograms ==
  { p \in OneInstruction : p.code[2] = 21 /\ p.code[3] = 0 }
    \cup Tests \cup PushPop \cup StoreLoad

loadDebugged == loadProgram(DebugPrograms)

DoAttachDebugger ==
  /\ phase \in {"new", "poked"}
  /\ cpu.panic = NoPanic
  /\ ~cpu.debugger.attached
  /\ cpu' = AttachDebugger(cpu)
  /\ UNCHANGED <<instructionSets, phase, stepsLeft, trace, twin, getters>>

DoDetachDebugger ==
  /\ phase \in {"new", "poked"}
  /\ cpu.panic = NoPanic
  /\ cpu.debugger.attached
  /\ cpu' = DetachDebugger(cpu)
  /\ UNCHANGED <<instructionSets, phase, stepsLeft, trace, twin, getters>>

NextDebug ==
  Poke \/ DoAttachDebugger \/ DoDetachDebugger \/ loadDebugged \/ DoStep

DebugSpec == Init /\ [][NextDebug]_vars

(***************************************************************************)
(* An observed CPU and an unobserved one                                   *)
(***************************************************************************)
ObservedPrograms ==
  { p \in OneInstruction : p.code[2] = 21 /\ p.code[3] = 0 }
    \cup PushPop \cup {TestReg0, TestArithmetic}

loadObserved == loadProgram(ObservedPrograms)

DoAttachBrkHandler ==
  /\ phase \in {"new", "poked"}
  /\ cpu.panic = NoPanic
  /\ ~cpu.brkHandler
  /\ cpu' = AttachBrkHandler(cpu)
  /\ UNCHANGED <<instructionSets, phase, stepsLeft, trace, twin, getters>>

(* The host makes a second CPU in the state of the first, with no debugger:
   never attached, or detached again. *)
NewUnobserved ==
  /\ phase = "run"
  /\ trace = <<>>
  /\ twin = <<>>
  /\ cpu.panic = NoPanic
  /\ twin' = << DetachDebugger(cpu) >>
  /\ UNCHANGED <<instructionSets, cpu, phase, stepsLeft, trace, getters>>

NextObserver ==
  \/ Poke
  \/ DoAttachDebugger
  \/ DoDetachDebugger
  \/ DoAttachBrkHandler
  \/ loadObserved
  \/ NewUnobserved
  \/ DoStep
  \/ StepTwin

ObserverSpec == Init /\ [][NextObserver]_vars

(***************************************************************************)
(* Addresses on the stack                                                  *)
(***************************************************************************)
(* High and low bytes of the addresses pushed. *)
EdgeBytes == {0, 1, 18, 52, 127, 128, 254, 255}

Addresses == { hi * 256 + lo : hi \in EdgeBytes, lo \in EdgeBytes }

(* The host writes the stack pointer. *)
SetSP ==
  /\ phase = "new"
  /\ cpu.panic = NoPanic
  /\ \E sp \in Byte : cpu' = [cpu EXCEPT !.Reg.SP = sp]
  /\ phase' = "poked"
  /\ UNCHANGED <<instructionSets, stepsLeft, trace, twin, getters>>

(* cpu.pushAddress(addr) *)
DoPushAddress ==
  /\ phase \in {"new", "poked"}
  /\ cpu.panic = NoPanic
  /\ \E addr \in Addresses : cpu' = pushAddress(cpu, addr)
  /\ trace' = Append(trace, cpu)
  /\ phase' = "pushed"
  /\ UNCHANGED <<instructionSets, stepsLeft, twin, getters>>

(* cpu.popAddress() *)
DoPopAddress ==
  /\ phase = "pushed"
  /\ cpu' = popAddress(cpu).c
  /\ trace' = Append(trace, cpu)
  /\ phase' = "popped"
  /\ UNCHANGED <<instructionSets, stepsLeft, twin, getters>>

NextStack == SetSP \/ DoPushAddress \/ DoPopAddress

StackSpec == Init /\ [][NextStack]_vars

(***************************************************************************)
(* A BRK handler                                                           *)
(***************************************************************************)
(* LDI0 #$11; NOP; LDI1 #$01 *)
LoadNopLoad == [code |-> <<224, 17, 0, 225, 1>>, steps |-> 3]

BrkPrograms ==
  { p \in OneInstruction : p.code[2] = 0 /\ p.code[3] = 0 }
    \cup Tests \cup {LoadNopLoad}

loadBrk == loadProgram(BrkPrograms)

NextBrk == Poke \/ DoAttachBrkHandler \/ loadBrk \/ DoStep

BrkSpec == Init /\ [][NextBrk]_vars

(***************************************************************************)
(* Shifts there and back                                                   *)
(***************************************************************************)
(* LDI r #b; SHL r; SHRC r and LDI r #b; SHR r; SHLC r, for every register
   r and every byte b. *)
ShiftPairs == { <<120, 112>>, <<104, 32>> }

ShiftRoundTrips ==
  { [code |-> <<224 + r, b, sp[1] + r, sp[2] + r>>, steps |-> 3] :
      r \in RegIndex, b \in Byte, sp \in ShiftPairs }

loadShifts == loadProgram(ShiftRoundTrips)

NextShift == Poke \/ loadShifts \/ DoStep

ShiftSpec == Init /\ [][NextShift]_vars

(***************************************************************************)
(* Vocabulary of the properties                                            *)
(***************************************************************************)
InstSet == instructionSets[cpu.Arch]

(* The descriptor fetched by the Step taken from CPU c. *)
Fetched(c) == Lookup(instructionSets[c.Arch], LoadByte(c.Mem, c.Reg.PC))

Stepped == trace # <<>>

(* The CPU before the latest Step. *)
Before == trace[Len(trace)]

(* The CPU after the k-th Step. *)
After(k) == IF k = Len(trace) THEN cpu ELSE trace[k + 1]

(* The opcode byte and the operand bytes the Step from CPU c fetches. *)
Opcode(c) == LoadByte(c.Mem, c.Reg.PC)

Operand(c, i) == LoadByte(c.Mem, ToWord(c.Reg.PC + i))

OperandAddr(c) == Operand(c, 1) * 256 + Operand(c, 2)

IsUnused(c) == Fetched(c).Name = unusedName

TypeOK ==
  /\ cpu.Reg.SP \in Byte
  /\ cpu.Reg.PC \in Word
  /\ cpu.Reg.Q \in Byte
  /\ \A r \in RegIndex : cpu.Reg.R[r] \in Byte
  /\ \A a \in DOMAIN cpu.Mem : a \in Word /\ cpu.Mem[a] \in Byte

(***************************************************************************)
(* Properties                                                              *)
(***************************************************************************)

(* C1: every Step adds exactly the cycles field of the descriptor of the
   opcode fetched at the pre-Step PC to Cycles, for every opcode byte. *)
C1_StepAddsDescriptorCycles ==
  Stepped => cpu.Cycles = Before.Cycles + Fetched(Before).Cycles

(* C2, as stated: a Step of a defined instruction moves PC forward by at
   least the descriptor's length, and by exactly the length unless it is a
   taken branch, CALL or RET. *)
TakenBranchOrCallRet(c) ==
  LET d == Fetched(c) IN
  \/ d.Name \in {"LBR", "CALL", "RET"}
  \/ d.Name = "LBRC" /\ c.Reg.Carry
  \/ d.Name = "LBRZ" /\ c.Reg.Zero
  \/ d.Name = "LBRQ" /\ Bit(c.Reg.Q, getReg(d.Opcode)) = 1

C2_PCAdvancesAtLeastLength ==
  (Stepped /\ ~IsUnused(Before)) =>
     /\ cpu.Reg.PC - Before.Reg.PC >= Fetched(Before).Length
     /\ ~TakenBranchOrCallRet(Before) =>
          cpu.Reg.PC - Before.Reg.PC = Fetched(Before).Length

(* C2, amended: a Step of a defined instruction other than HALT, CALL, RET,
   LBR, LBRC and an LBRZ or LBRQ whose condition holds leaves PC at the
   pre-Step PC plus the descriptor's length, modulo 2^16. *)
C2_PCAdvancesByLength ==
  (/\ Stepped
   /\ ~IsUnused(Before)
   /\ ~TakenBranchOrCallRet(Before)
   /\ Fetched(Before).Name \notin {"HALT", "LBRC"}) =>
     cpu.Reg.PC = ToWord(Before.Reg.PC + Fetched(Before).Length)

C2_Witness ==
  /\ Stepped
  /\ Fetched(Before).Name = "LBRZ"
  /\ ~Before.Reg.Zero
  /\ OperandAddr(Before) < Before.Reg.PC
  /\ cpu.Reg.PC = Before.Reg.PC + 3

(* C3: Step returns for every opcode in every reachable state: no handler
   panics. *)
C3_StepNeverPanics == cpu.panic = NoPanic

(* C4: after construction, for both architectures and both packages, every
   opcode byte b has a descriptor with Opcode = b, Length in 1..3 and a
   non-empty Name, and construction has not panicked. *)
cpu_instructionSets == [arch \in Architecture |-> cpu_newInstructionSet(arch)]

TableOK(set) ==
  /\ ~set.panic
  /\ \A b \in Byte :
       LET d == Lookup(set, b) IN
       d.Opcode = b /\ d.Length \in {1, 2, 3} /\ d.Name # ""

C4_TablePopulated ==
  \A arch \in DOMAIN instructionSets :
     TableOK(instructionSets[arch]) /\ TableOK(cpu_instructionSets[arch])

C4_Witness ==
  /\ CMOS \in DOMAIN instructionSets
  /\ Lookup(instructionSets[CMOS], 255).fn = "unusedc"
  /\ Lookup(instructionSets[CMOS], 239).Name = "STI7"
  /\ Lookup(cpu_instructionSets[CMOS], 3).Name = "RET"
  /\ phase = "run"

(* C5: a Step on an unused slot advances PC by 1 and Cycles by 1 and leaves
   registers, SP, Q, flags and memory as they were; n unused opcodes from
   the origin leave PC = origin + n and Cycles = n. *)
C5_UnusedIsTimedNop ==
  /\ (Stepped /\ IsUnused(Before)) =>
        /\ Fetched(Before).Length = 1
        /\ Fetched(Before).Cycles = 1
        /\ cpu = [Before EXCEPT !.LastPC = Before.Reg.PC,
                                !.Reg.PC = ToWord(@ + 1),
                                !.Cycles = @ + 1]
  /\ \A n \in 1..Len(trace) :
        (/\ trace[1].Reg.PC = Origin
         /\ trace[1].Cycles = 0
         /\ \A k \in 1..n : IsUnused(trace[k])) =>
           After(n).Reg.PC = Origin + n /\ After(n).Cycles = n

C5_Witness ==
  /\ Len(trace) = 5
  /\ [k \in 1..5 |-> Opcode(trace[k])] = <<6, 7, 28, 29, 30>>
  /\ \A k \in 1..5 : IsUnused(trace[k])
  /\ Before.Reg.R[1] = 34
  /\ cpu.Reg.PC = Origin + 5
  /\ cpu.Cycles = 5

(* C6: a Step that executes HALT at address A leaves PC at A and adds the
   HALT cycle cost, on the first and on every further Step. *)
C6_HaltKeepsPC ==
  (Stepped /\ Opcode(Before) = 1) =>
     /\ cpu.Reg.PC = Before.Reg.PC
     /\ cpu.Cycles = Before.Cycles + 1

(* C7: PUSH r followed by POP r' leaves in R[r'] the pre-push value of R[r],
   restores SP (also across the wrap at $00) and leaves the pushed value in
   the cell $0100|SP_pre; n pushes followed by n pops return the values in
   reverse order: each pop returns the value of the push it matches. *)
IsPush(c) == Opcode(c) \in 64..71

IsPop(c) == Opcode(c) \in 72..79

(* Pushes minus pops among the Steps i..k. *)
StackDepth(i, k) ==
  Cardinality({m \in i..k : IsPush(trace[m])})
    - Cardinality({m \in i..k : IsPop(trace[m])})

(* Step j is the pop that matches the push of Step i. *)
Matches(i, j) ==
  /\ i < j
  /\ IsPush(trace[i])
  /\ IsPop(trace[j])
  /\ \A k \in i..j : IsPush(trace[k]) \/ IsPop(trace[k])
  /\ \A k \in i..(j - 1) : StackDepth(i, k) >= 1
  /\ StackDepth(i, j) = 0

C7_PushPopRoundTrip ==
  \A i \in 1..Len(trace) : \A j \in 1..Len(trace) :
     Matches(i, j) =>
        LET pushed == trace[i].Reg.R[Opcode(trace[i]) - 64] IN
        /\ After(j).Reg.R[Opcode(trace[j]) - 72] = pushed
        /\ After(j).Reg.SP = trace[i].Reg.SP
        /\ LoadByte(After(j).Mem, 256 + trace[i].Reg.SP) = pushed

C7_Witness ==
  /\ Len(trace) = 4
  /\ Matches(1, 4)
  /\ Matches(2, 3)
  /\ trace[1].Reg.SP = 0
  /\ trace[2].Reg.SP = 255
  /\ cpu.Reg.SP = 0
  /\ trace[1].Reg.R[Opcode(trace[1]) - 64] # trace[2].Reg.R[Opcode(trace[2]) - 64]
  /\ cpu.Reg.R[Opcode(trace[4]) - 72] = trace[1].Reg.R[Opcode(trace[1]) - 64]
  /\ cpu.Reg.R[Opcode(trace[3]) - 72] = trace[2].Reg.R[Opcode(trace[2]) - 64]

(* C8: CALL addr at address A sets PC to addr, lowers SP by 2 and leaves the
   return address A+3 on the stack, high byte at $0100|SP_pre and low byte
   one below; a later RET with SP as the CALL left it sets PC to A+3 and
   restores SP. *)
C8_CallRetRoundTrip ==
  /\ (Stepped /\ Opcode(Before) = 2) =>
        LET retAddr == ToWord(Before.Reg.PC + 3) IN
        /\ cpu.Reg.PC = OperandAddr(Before)
        /\ cpu.Reg.SP = ToByte(Before.Reg.SP + 254)
        /\ LoadByte(cpu.Mem, 256 + Before.Reg.SP) = retAddr \div 256
        /\ LoadByte(cpu.Mem, 256 + ToByte(Before.Reg.SP + 255)) = retAddr % 256
  /\ \A i \in 1..Len(trace) : \A j \in 1..Len(trace) :
        (/\ i < j
         /\ Opcode(trace[i]) = 2
         /\ Opcode(trace[j]) = 3
         /\ trace[j].Reg.SP = After(i).Reg.SP) =>
           /\ After(j).Reg.PC = ToWord(trace[i].Reg.PC + 3)
           /\ After(j).Reg.SP = trace[i].Reg.SP

(* C9: after the Step of an instruction documented as updateNZ, with v the
   value left in its destination register, Zero is true iff v = 0 and Sign
   is true iff bit 7 of v is set. *)
DualRegisterNZ == {128, 130, 134, 135, 25}

SingleRegisterNZ ==
  (136..151) \cup (184..199) \cup (80..103) \cup (40..55) \cup (32..39)
    \cup (104..127) \cup (72..79)

Dest(c) ==
  IF Opcode(c) \in DualRegisterNZ THEN getRegXY(Operand(c, 1)).x
  ELSE Opcode(c) % 8

C9_ZeroSignFollowResult ==
  (Stepped /\ Opcode(Before) \in DualRegisterNZ \cup SingleRegisterNZ) =>
     LET v == cpu.Reg.R[Dest(Before)] IN
     /\ cpu.Reg.Zero <=> (v = 0)
     /\ cpu.Reg.Sign <=> (v >= 128)
     /\ ~(cpu.Reg.Zero /\ cpu.Reg.Sign)

(* C10: ADI (0x88+r, d) sets R[r] to (R[r] + d) mod 256 and ADM
   (0x90+r, hi lo) sets R[r] to (R[r] + Memory[hi:lo]) mod 256; both update
   Zero and Sign from the result and change no other register. *)
C10_AddImmediateAndMemory ==
  (Stepped /\ Opcode(Before) \in 136..151) =>
     LET r   == Opcode(Before) % 8
         d   == IF Opcode(Before) < 144 THEN Operand(Before, 1)
                ELSE LoadByte(Before.Mem, OperandAddr(Before))
         sum == ToByte(Before.Reg.R[r] + d)
     IN  /\ cpu.Reg.R = [Before.Reg.R EXCEPT ![r] = sum]
         /\ cpu.Reg.Zero <=> (sum = 0)
         /\ cpu.Reg.Sign <=> (sum >= 128)

(* The opcodes fetched by the Steps taken so far. *)
Opcodes == [k \in 1..Len(trace) |-> Opcode(trace[k])]

(* Memories m1 and m2 hold the same bytes outside the cells of except. *)
MemSame(m1, m2, except) ==
  \A a \in ((DOMAIN m1) \cup (DOMAIN m2)) \ except :
     LoadByte(m1, a) = LoadByte(m2, a)

(* C11: ADR (0x80) with operand byte v sets R[X] to (R[X] + R[Y]) mod 256 with
   X = (v >> 4) & 7 and Y = v & 7, updates Zero and Sign from the result and
   changes no other register, not Carry and no memory; the operand v | $88
   gives the same registers and flags; LDI0 #$11; LDI1 #$01; ADR $01 leaves
   R0 = $12 with Zero and Sign false. *)
C11_AddRegisters ==
  /\ (Stepped /\ Opcode(Before) = 128) =>
        LET v    == Operand(Before, 1)
            X    == (v \div 16) % 8
            Y    == v % 8
            sum  == (Before.Reg.R[X] + Before.Reg.R[Y]) % 256
            alt  == [Before EXCEPT
                       !.Mem = StoreByte(@, ToWord(Before.Reg.PC + 1),
                                         BitOr(v, 136))]
        IN  /\ cpu.Reg = [Before.Reg EXCEPT !.R[X] = sum,
                                            !.Zero = (sum = 0),
                                            !.Sign = (sum >= 128),
                                            !.PC = ToWord(@ + 2)]
            /\ MemSame(cpu.Mem, Before.Mem, {})
            /\ Step(alt, instructionSets[alt.Arch]).Reg = cpu.Reg
  /\ (Opcodes = <<224, 225, 128>> /\ trace[1].Mem = StoreBytes(NewFlatMemory, Origin, TestArithmetic.code)) =>
        /\ cpu.Reg.R[0] = 18
        /\ ~cpu.Reg.Zero
        /\ ~cpu.Reg.Sign
        /\ cpu.Reg.PC = Origin + 6

C11_Witness ==
  /\ Stepped
  /\ Opcode(Before) = 128
  /\ Operand(Before, 1) = 154
  /\ Before.Reg.R[1] = 34
  /\ Before.Reg.R[2] = 51
  /\ Before.Reg.Carry
  /\ Before.Reg.Zero
  /\ cpu.Reg.R[1] = 85
  /\ cpu.Reg.Carry
  /\ ~cpu.Reg.Zero

(* C12: ANI (0x50+r), ORI (0x58+r) and XRI (0x60+r) with operand byte d set
   R[r] to the AND, OR and XOR of the CONTENT of R[r] with d, and update
   Zero and Sign from the result. *)
C12_ImmediateLogicUsesContent ==
  (Stepped /\ Opcode(Before) \in 80..103) =>
     LET op  == Opcode(Before)
         r   == op % 8
         d   == Operand(Before, 1)
         old == Before.Reg.R[r]
         v   == IF op < 88 THEN BitAnd(old, d)
                ELSE IF op < 96 THEN BitOr(old, d)
                ELSE BitXor(old, d)
     IN  /\ cpu.Reg.R = [Before.Reg.R EXCEPT ![r] = v]
         /\ cpu.Reg.Zero <=> (v = 0)
         /\ cpu.Reg.Sign <=> (v >= 128)

(* C13: INC (0x28+r) sets R[r] to (R[r] + 1) mod 256, updates Zero and Sign
   from the result, writes nothing to memory and advances PC by 1. *)
C13_IncrementRegister ==
  (Stepped /\ Opcode(Before) \in 40..47) =>
     LET r == Opcode(Before) % 8
         v == (Before.Reg.R[r] + 1) % 256
     IN  /\ cpu.panic = NoPanic
         /\ cpu.Reg = [Before.Reg EXCEPT !.R[r] = v,
                                          !.Zero = (v = 0),
                                          !.Sign = (v >= 128),
                                          !.PC = ToWord(@ + 1)]
         /\ MemSame(cpu.Mem, Before.Mem, {})

(* C14: LBRC addr sets PC to addr if and only if Carry is true at the Step;
   with Carry false PC is the pre-Step PC + 3. *)
C14_BranchOnCarryOnly ==
  (Stepped /\ Fetched(Before).Name = "LBRC") =>
     cpu.Reg.PC = IF Before.Reg.Carry THEN OperandAddr(Before)
                  ELSE ToWord(Before.Reg.PC + 3)

(* C15: LBRQ q addr (q = opcode & 7) sets PC to addr when bit q of Q is set
   and otherwise leaves PC at the pre-Step PC + 3; right after SETQ q the
   branch is taken and right after RESETQ q it is not. *)
C15_BranchOnQ ==
  /\ (Stepped /\ Fetched(Before).Name = "LBRQ") =>
        cpu.Reg.PC = IF Bit(Before.Reg.Q, Opcode(Before) % 8) = 1
                     THEN OperandAddr(Before)
                     ELSE ToWord(Before.Reg.PC + 3)
  /\ \A k \in 2..Len(trace) :
        (/\ Fetched(trace[k]).Name = "LBRQ"
         /\ Opcode(trace[k - 1]) \in (16..23) \cup (56..63)
         /\ Opcode(trace[k - 1]) % 8 = Opcode(trace[k]) % 8) =>
           After(k).Reg.PC = IF Opcode(trace[k - 1]) >= 56
                             THEN OperandAddr(trace[k])
                             ELSE ToWord(trace[k].Reg.PC + 3)

(* C16: SUB (R[X] - R[Y]), SUBI (R[r] - operand) and SUBM (R[r] -
   Memory[addr]) store (minuend - subtrahend) mod 256 in the destination
   register, set Carry iff minuend >= subtrahend and update Zero and Sign
   from the result. *)
C16_Subtract ==
  (Stepped /\ Opcode(Before) \in {130} \cup (184..199)) =>
     LET op   == Opcode(Before)
         dst  == IF op = 130 THEN (Operand(Before, 1) \div 16) % 8 ELSE op % 8
         sub_ == IF op = 130 THEN Before.Reg.R[Operand(Before, 1) % 8]
                 ELSE IF op < 192 THEN Operand(Before, 1)
                 ELSE LoadByte(Before.Mem, OperandAddr(Before))
         min_ == Before.Reg.R[dst]
         diff == (min_ - sub_ + 256) % 256
     IN  /\ cpu.Reg.R = [Before.Reg.R EXCEPT ![dst] = diff]
         /\ cpu.Reg.Carry <=> (min_ >= sub_)
         /\ cpu.Reg.Zero <=> (diff = 0)
         /\ cpu.Reg.Sign <=> (diff >= 128)

(* C17: LDM (0xF0+r, hi lo) sets R[r] to Memory[(hi<<8)|lo] and changes no
   flag, no other register and no memory; STI r addr followed by LDM r' addr
   leaves R[r'] equal to R[r]. *)
C17_LoadFromMemory ==
  /\ (Stepped /\ Opcode(Before) \in 240..247) =>
        /\ cpu.Reg = [Before.Reg EXCEPT
                        !.R[Opcode(Before) % 8] =
                            LoadByte(Before.Mem, OperandAddr(Before)),
                        !.PC = ToWord(@ + 3)]
        /\ MemSame(cpu.Mem, Before.Mem, {})
  /\ \A k \in 2..Len(trace) :
        (/\ Opcode(trace[k - 1]) \in 232..239
         /\ Opcode(trace[k]) \in 240..247
         /\ OperandAddr(trace[k - 1]) = OperandAddr(trace[k])) =>
           After(k).Reg.R[Opcode(trace[k]) % 8] =
             After(k).Reg.R[Opcode(trace[k - 1]) % 8]

(* C18: LDI (0xE0+r, v) sets only R[r] to v; STI (0xE8+r, hi lo) writes R[r]
   to the one cell (hi<<8)|lo; neither changes a flag or another register;
   LDI followed by STI advances PC by 5 and Cycles by 6; E0 5E E8 15 00 at
   $1000 gives PC = $1005, R0 = $5E, Memory[$1500] = $5E, Cycles = 6. *)
C18_LoadImmediateStore ==
  /\ (Stepped /\ Opcode(Before) \in 224..231) =>
        /\ cpu.Reg = [Before.Reg EXCEPT
                        !.R[Opcode(Before) % 8] = Operand(Before, 1),
                        !.PC = ToWord(@ + 2)]
        /\ MemSame(cpu.Mem, Before.Mem, {})
  /\ (Stepped /\ Opcode(Before) \in 232..239) =>
        LET addr == Operand(Before, 1) * 256 + Operand(Before, 2) IN
        /\ cpu.Reg = [Before.Reg EXCEPT !.PC = ToWord(@ + 3)]
        /\ LoadByte(cpu.Mem, addr) = Before.Reg.R[Opcode(Before) % 8]
        /\ MemSame(cpu.Mem, Before.Mem, {addr})
  /\ \A k \in 2..Len(trace) :
        (Opcode(trace[k - 1]) \in 224..231 /\ Opcode(trace[k]) \in 232..239) =>
           /\ After(k).Reg.PC = ToWord(trace[k - 1].Reg.PC + 5)
           /\ After(k).Cycles = trace[k - 1].Cycles + 6
  /\ (/\ Opcodes = <<224, 232>>
      /\ trace[1].Mem = StoreBytes(NewFlatMemory, Origin, TestReg0.code)) =>
        /\ cpu.Reg.PC = 4101
        /\ cpu.Reg.R[0] = 94
        /\ LoadByte(cpu.Mem, 5376) = 94
        /\ cpu.Cycles = 6

C18_Witness ==
  /\ Opcodes = <<224, 232>>
  /\ trace[1].Mem = StoreBytes(NewFlatMemory, Origin, TestReg0.code)
  /\ trace[1].Reg.R[0] = 17
  /\ trace[1].Reg.Carry
  /\ trace[1].Reg.Zero
  /\ LoadByte(trace[1].Mem, 5376) = 0
  /\ LoadByte(cpu.Mem, 5376) = 94
  /\ cpu.Reg.R[0] = 94
  /\ cpu.Reg.Zero

(* C19: SETQ q (0x38+q) sets and RESETQ q (0x10+q) clears bit q of Q and
   leaves the other bits of Q, the registers, the flags, SP and memory as
   they were; repeating the instruction changes nothing more; SETQ0..SETQ7
   from Q = 0 give Q = $FF with PC advanced by 8 and Cycles by 8. *)
C19_SetResetQ ==
  /\ (Stepped /\ Opcode(Before) \in QOpcodes) =>
        LET q   == Opcode(Before) % 8
            set == Opcode(Before) >= 56
        IN  /\ \A b \in 0..7 :
                  Bit(cpu.Reg.Q, b) =
                    IF b = q THEN (IF set THEN 1 ELSE 0) ELSE Bit(Before.Reg.Q, b)
            /\ cpu.Reg = [Before.Reg EXCEPT !.Q = cpu.Reg.Q, !.PC = ToWord(@ + 1)]
            /\ MemSame(cpu.Mem, Before.Mem, {})
  /\ \A k \in 2..Len(trace) :
        (Opcode(trace[k]) \in QOpcodes /\ Opcode(trace[k - 1]) = Opcode(trace[k])) =>
           After(k).Reg.Q = trace[k].Reg.Q
  /\ (Opcodes = <<56, 57, 58, 59, 60, 61, 62, 63>> /\ trace[1].Reg.Q = 0) =>
        /\ cpu.Reg.Q = 255
        /\ cpu.Reg.PC = ToWord(trace[1].Reg.PC + 8)
        /\ cpu.Cycles = trace[1].Cycles + 8

C19_Witness ==
  /\ Opcodes = <<59, 59>>
  /\ trace[1].Reg.Q = 165
  /\ trace[2].Reg.Q = 173
  /\ cpu.Reg.Q = 173
  /\ cpu.Reg.R[1] = 34
  /\ cpu.Reg.Carry

(* C20: SPSR m sets to true exactly the flags whose bit is set in the mask m
   (bit 0 Carry, 1 Zero, 2 InterruptDisable, 3 Decimal, 4 Break, 6 Overflow,
   7 Sign) and CPSR m sets exactly those to false, also for masks with
   several bits; the other flags are unchanged; bit 4 is Break. *)
FlagAfter(old, m, b, set) == IF Bit(m, b) = 1 THEN set ELSE old

C20_StatusMask ==
  (Stepped /\ Opcode(Before) \in {4, 5}) =>
     LET m   == Operand(Before, 1)
         set == Opcode(Before) = 4
         f   == Before.Reg
     IN  cpu.Reg = [f EXCEPT
           !.Carry            = FlagAfter(f.Carry, m, 0, set),
           !.Zero             = FlagAfter(f.Zero, m, 1, set),
           !.InterruptDisable = FlagAfter(f.InterruptDisable, m, 2, set),
           !.Decimal          = FlagAfter(f.Decimal, m, 3, set),
           !.Break            = FlagAfter(f.Break, m, 4, set),
           !.Overflow         = FlagAfter(f.Overflow, m, 6, set),
           !.Sign             = FlagAfter(f.Sign, m, 7, set),
           !.PC               = ToWord(@ + 2)]

(* The registers selected by the operand byte of a dual-register
   instruction. *)
RegX(c) == (Operand(c, 1) \div 16) % 8

RegY(c) == Operand(c, 1) % 8

(* C21: after CMP with operand v, Carry is true iff R[X] = R[Y]; Zero, Sign,
   Overflow and every other flag, all registers and memory are unchanged. *)
C21_CompareSetsCarry ==
  (Stepped /\ Opcode(Before) = 133) =>
     /\ cpu.Reg = [Before.Reg EXCEPT
                     !.Carry = (Before.Reg.R[RegX(Before)] = Before.Reg.R[RegY(Before)]),
                     !.PC = ToWord(@ + 2)]
     /\ (RegX(Before) = RegY(Before)) => cpu.Reg.Carry
     /\ MemSame(cpu.Mem, Before.Mem, {})

C21_Witness ==
  /\ Stepped
  /\ Opcode(Before) = 133
  /\ Operand(Before, 1) = 54
  /\ Before.Reg.R[3] = 128
  /\ Before.Reg.R[6] = 128
  /\ ~Before.Reg.Carry
  /\ Before.Reg.Sign
  /\ cpu.Reg.Carry
  /\ cpu.Reg.Sign

(* C22, as stated: CMP sets Carry to true when R[X] = R[Y] and leaves Carry
   unchanged otherwise. *)
C22_CompareKeepsCarry ==
  (Stepped /\ Opcode(Before) = 133) =>
     cpu.Reg.Carry =
       IF Before.Reg.R[RegX(Before)] = Before.Reg.R[RegY(Before)] THEN TRUE
       ELSE Before.Reg.Carry

(* C22, amended: a CMP of two unequal registers leaves Carry false, whatever
   Carry was before the Step. *)
C22_CompareClearsCarry ==
  (/\ Stepped
   /\ Opcode(Before) = 133
   /\ Before.Reg.R[RegX(Before)] # Before.Reg.R[RegY(Before)]) =>
     ~cpu.Reg.Carry

C22_Witness ==
  /\ Stepped
  /\ Opcode(Before) = 133
  /\ Before.Reg.R[RegX(Before)] # Before.Reg.R[RegY(Before)]
  /\ Before.Reg.Carry
  /\ ~cpu.Reg.Carry

(* C28: SHL (0x78+r) sets Carry to bit 7 of R[r] and R[r] to (R[r] << 1)
   mod 256; SHR (0x68+r) sets Carry to bit 0 of R[r] and R[r] to R[r] >> 1;
   both update Zero and Sign from the new R[r], so Sign is false after SHR. *)
C28_Shift ==
  /\ (Stepped /\ Opcode(Before) \in 120..127) =>
        LET r == Opcode(Before) % 8
            b == Before.Reg.R[r]
            v == (b * 2) % 256
        IN  cpu.Reg = [Before.Reg EXCEPT !.R[r] = v,
                                         !.Carry = (b >= 128),
                                         !.Zero = (v = 0),
                                         !.Sign = (v >= 128),
                                         !.PC = ToWord(@ + 1)]
  /\ (Stepped /\ Opcode(Before) \in 104..111) =>
        LET r == Opcode(Before) % 8
            b == Before.Reg.R[r]
            v == b \div 2
        IN  /\ cpu.Reg = [Before.Reg EXCEPT !.R[r] = v,
                                            !.Carry = (b % 2 = 1),
                                            !.Zero = (v = 0),
                                            !.Sign = FALSE,
                                            !.PC = ToWord(@ + 1)]
            /\ ~cpu.Reg.Sign

C28_Witness ==
  /\ Opcodes = <<227, 123>>
  /\ Before.Reg.R[3] = 192
  /\ ~Before.Reg.Carry
  /\ cpu.Reg.R[3] = 128
  /\ cpu.Reg.Carry
  /\ cpu.Reg.Sign

(* C29: SHLC (0x20+r) sets R[r] to ((R[r] << 1) mod 256) with bit 0 equal to
   the incoming Carry; SHRC (0x70+r) sets R[r] to (R[r] >> 1) with bit 7
   equal to the incoming Carry; both update Zero and Sign and leave Carry as
   it was. *)
C29_ShiftThroughCarry ==
  /\ (Stepped /\ Opcode(Before) \in 32..39) =>
        LET r == Opcode(Before) % 8
            b == Before.Reg.R[r]
            v == ((b * 2) % 256) + (IF Before.Reg.Carry THEN 1 ELSE 0)
        IN  /\ cpu.Reg = [Before.Reg EXCEPT !.R[r] = v,
                                            !.Zero = (v = 0),
                                            !.Sign = (v >= 128),
                                            !.PC = ToWord(@ + 1)]
            /\ cpu.Reg.Carry = Before.Reg.Carry
  /\ (Stepped /\ Opcode(Before) \in 112..119) =>
        LET r == Opcode(Before) % 8
            b == Before.Reg.R[r]
            v == (b \div 2) + (IF Before.Reg.Carry THEN 128 ELSE 0)
        IN  /\ cpu.Reg = [Before.Reg EXCEPT !.R[r] = v,
                                            !.Zero = (v = 0),
                                            !.Sign = (v >= 128),
                                            !.PC = ToWord(@ + 1)]
            /\ cpu.Reg.Carry = Before.Reg.Carry

C29_Witness ==
  /\ Opcodes = <<227, 35>>
  /\ Before.Reg.R[3] = 192
  /\ Before.Reg.Carry
  /\ cpu.Reg.R[3] = 129
  /\ cpu.Reg.Carry

(* C30: EX with operand v swaps R[X] and R[Y] and changes no flag, no other
   register and no memory; EX twice with the same operand restores all
   registers; EX with X = Y changes no register. *)
C30_Exchange ==
  /\ (Stepped /\ Opcode(Before) = 132) =>
        LET X == RegX(Before)
            Y == RegY(Before)
        IN  /\ cpu.Reg = [Before.Reg EXCEPT
                            !.R = [i \in RegIndex |->
                                     IF i = X THEN Before.Reg.R[Y]
                                     ELSE IF i = Y THEN Before.Reg.R[X]
                                     ELSE Before.Reg.R[i]],
                            !.PC = ToWord(@ + 2)]
            /\ (X = Y) => cpu.Reg.R = Before.Reg.R
            /\ MemSame(cpu.Mem, Before.Mem, {})
  /\ \A k \in 2..Len(trace) :
        (/\ Opcode(trace[k - 1]) = 132
         /\ Opcode(trace[k]) = 132
         /\ Operand(trace[k - 1], 1) = Operand(trace[k], 1)) =>
           After(k).Reg.R = trace[k - 1].Reg.R

C30_Witness ==
  /\ Opcodes = <<132, 132>>
  /\ Operand(Before, 1) = 154
  /\ trace[1].Reg.R[1] = 34
  /\ trace[1].Reg.R[2] = 51
  /\ trace[2].Reg.R[1] = 51
  /\ trace[2].Reg.R[2] = 34
  /\ cpu.Reg.R = trace[1].Reg.R

(* C23: reset sets PC to the big-endian 16-bit value at the reset vector,
   PC = (Memory[$FFFC] << 8) | Memory[$FFFD], and changes nothing else:
   registers, SP, Q, flags, Cycles and memory are as before. *)
C23_ResetLoadsVector ==
  (phase = "reset") =>
     cpu = [Before EXCEPT
              !.Reg.PC = LoadByte(Before.Mem, 65532) * 256
                           + LoadByte(Before.Mem, 65533)]

C23_Witness ==
  /\ phase = "reset"
  /\ LoadByte(Before.Mem, 65532) = 18
  /\ LoadByte(Before.Mem, 65533) = 52
  /\ Before.Reg.PC = 4101
  /\ Before.Cycles = 6
  /\ Before.Reg.R[0] = 94
  /\ Before.Reg.Zero
  /\ cpu.Reg.PC = 4660
  /\ cpu.Cycles = 6
  /\ cpu.Reg.R[0] = 94
  /\ cpu.Reg.Zero

(* The states of the first CPU so far, latest last. *)
History == Append(trace, cpu)

(* What a host can read of two CPUs is the same. *)
SameState(a, b) ==
  /\ a.Reg = b.Reg
  /\ a.Cycles = b.Cycles
  /\ a.LastPC = b.LastPC
  /\ a.panic = b.panic
  /\ MemSame(a.Mem, b.Mem, {})

(* C24: two CPU instances started with identical memory, registers, SP, PC,
   Q, flags and Cycles have identical memory, registers, SP, PC, LastPC, Q,
   flags and Cycles after each of N Steps, for every N and every program,
   however their Steps are interleaved. *)
C24_StepDeterministic ==
  \A n \in 1..Len(twin) : n <= Len(History) => SameState(twin[n], History[n])

C24_Witness ==
  /\ Len(twin) = 6
  /\ Len(History) = 6
  /\ twin[1].Arch # cpu.Arch
  /\ [k \in 1..5 |-> Opcode(twin[k])] = <<6, 7, 28, 29, 30>>
  /\ twin[6].Cycles = 5
  /\ cpu.Cycles = 5
  /\ cpu.Reg.R[1] = 34

(* The calls of the debugger's store hook made by the latest Step. *)
StoreCalls ==
  SubSeq(cpu.debugger.onDataStore,
         Len(Before.debugger.onDataStore) + 1, Len(cpu.debugger.onDataStore))

(* C25: while a debugger is attached, every memory store an instruction
   performs during Step, by STI as well as by PUSH, is preceded by a call of
   the debugger's store hook with the same address and value: no cell is
   given a new content by a Step without such a call. *)
C25_StoresAreAnnounced ==
  (Stepped /\ Before.debugger.attached) =>
     \A a \in DOMAIN cpu.Mem :
        LoadByte(cpu.Mem, a) # LoadByte(Before.Mem, a) =>
           \E i \in DOMAIN StoreCalls :
              StoreCalls[i] = <<a, LoadByte(cpu.Mem, a)>>

(* The spellings a caller may give: a table name as it stands, in lower
   case, with only its first letter in lower case, and a name no table has. *)
Mnemonics == {Chars(n) : n \in DOMAIN Spelling} \cup {<<88, 89, 90>>}

CaseVariants(m) ==
  {m, ToLower(m), ToUpper(m),
   [i \in DOMAIN m |-> IF i = 1 THEN ToLower(m)[i] ELSE ToUpper(m)[i]]}

Occurrences(list, opcode) == Cardinality({i \in DOMAIN list : list[i] = opcode})

GetInstructionsOK(set) ==
  /\ \A m \in Mnemonics : \A v \in CaseVariants(m) :
        /\ GetInstructions(set, v) = GetInstructions(set, m)
        /\ \A i \in DOMAIN GetInstructions(set, v) :
              Chars(Lookup(set, GetInstructions(set, v)[i]).Name) = ToUpper(v)
  /\ \A b \in Byte :
        IF Lookup(set, b).Name = unusedName
        THEN \A m \in Mnemonics : Occurrences(GetInstructions(set, m), b) = 0
        ELSE Occurrences(GetInstructions(set, Chars(Lookup(set, b).Name)), b) = 1

(* C26: GetInstructions is case-insensitive and exact, in the tables of both
   packages: every letter-case variant of a mnemonic yields the same list,
   every descriptor in the list bears the upper-cased mnemonic as its Name,
   every defined opcode occurs exactly once in the list of its own Name, and
   the descriptor of an unused slot occurs in no list. *)
C26_GetInstructions ==
  \A arch \in Architecture :
     /\ GetInstructionsOK(cpu_instructionSets[arch])
     /\ arch \in DOMAIN instructionSets => GetInstructionsOK(instructionSets[arch])

(***************************************************************************)
(* GetInstructionSet, one statement at a time                              *)
(***************************************************************************)
(* GetInstructionSet takes no lock, so the statements of its callers
   interleave. Caller p enters with the architecture it asks for. *)
enterGetInstructionSet(p) ==
  /\ getters.pc[p] = "idle"
  /\ \E arch \in Architecture :
       getters' = [getters EXCEPT !.pc[p] = "test", !.arch[p] = arch]
  /\ UNCHANGED <<instructionSets, cpu, phase, stepsLeft, trace, twin>>

(* `if instructionSets[arch] == nil`. *)
testNil(p) ==
  /\ getters.pc[p] = "test"
  /\ getters' = [getters EXCEPT !.pc[p] =
                   IF getters.arch[p] \in DOMAIN instructionSets
                   THEN "return" ELSE "create"]
  /\ UNCHANGED <<instructionSets, cpu, phase, stepsLeft, trace, twin>>

(* `instructionSets[arch] = newInstructionSet(arch)`: a new table, at an
   address of its own, replaces whatever the slot holds. *)
lazyCreate(p) ==
  /\ getters.pc[p] = "create"
  /\ LET arch == getters.arch[p] IN
       /\ instructionSets' = (arch :> newInstructionSet(arch)) @@ instructionSets
       /\ getters' = [getters EXCEPT !.pc[p] = "return",
                                     !.built = @ + 1,
                                     !.address = (arch :> (getters.built + 1)) @@ @]
  /\ UNCHANGED <<cpu, phase, stepsLeft, trace, twin>>

(* `return instructionSets[arch]`. *)
returnInstructionSet(p) ==
  /\ getters.pc[p] = "return"
  /\ LET arch == getters.arch[p] IN
       getters' = [getters EXCEPT !.pc[p] = "idle",
                                  !.returned = @ \cup {<<arch, getters.address[arch]>>}]
  /\ UNCHANGED <<instructionSets, cpu, phase, stepsLeft, trace, twin>>

(* The CPU under test runs a test program meanwhile. *)
loadShared == loadProgram(Tests)

NextLazy ==
  \/ \E p \in Callers : enterGetInstructionSet(p)
  \/ \E p \in Callers : testNil(p)
  \/ \E p \in Callers : lazyCreate(p)
  \/ \E p \in Callers : returnInstructionSet(p)
  \/ loadShared
  \/ DoStep

LazySpec == Init /\ [][NextLazy]_vars

(* The tables built so far are as many as the architectures asked for. *)
BuiltOnce == getters.built = Cardinality(DOMAIN instructionSets)

(* Every call for one architecture was handed the same table. *)
SameInstance ==
  \A r1, r2 \in getters.returned : r1[1] = r2[1] => r1[2] = r2[2]

(* Every table is as newInstructionSet built it. *)
DescriptorsKept ==
  \A arch \in DOMAIN instructionSets :
     instructionSets[arch] = newInstructionSet(arch)

(* C27: for each architecture the table is built at most once and retained:
   every call of GetInstructionSet(arch), whatever the order and the number
   of callers and even when their first calls overlap, returns the same
   table instance, and no Step of a CPU sharing it changes a descriptor. *)
C27_BuiltOnceAndRetained == BuiltOnce /\ SameInstance /\ DescriptorsKept

(* C31: stack overflow and underflow are silent. A PUSH stores at
   $0100 + SP and leaves SP one lower modulo 256 (from $00 to $FF), a POP
   raises SP by one modulo 256 (from $FF to $00) and loads from $0100 + the
   new SP; SP stays a byte, a PUSH changes no cell outside page $01, a POP
   changes no cell at all, and neither enters an error state. *)
C31_StackWrapsSilently ==
  /\ cpu.Reg.SP \in Byte
  /\ \A k \in 1..Len(trace) :
        LET b == trace[k]
            a == After(k)
        IN  /\ a.Reg.SP \in Byte
            /\ IsPush(b) =>
                  /\ a.panic = NoPanic
                  /\ a.Reg.SP = (b.Reg.SP + 255) % 256
                  /\ LoadByte(a.Mem, 256 + b.Reg.SP) = b.Reg.R[Opcode(b) - 64]
                  /\ MemSame(b.Mem, a.Mem, {256 + b.Reg.SP})
                  /\ (b.Reg.SP = 0 => a.Reg.SP = 255)
            /\ IsPop(b) =>
                  /\ a.panic = NoPanic
                  /\ a.Reg.SP = (b.Reg.SP + 1) % 256
                  /\ a.Reg.R[Opcode(b) - 72] = LoadByte(b.Mem, 256 + a.Reg.SP)
                  /\ MemSame(b.Mem, a.Mem, {})
                  /\ (b.Reg.SP = 255 => a.Reg.SP = 0)

(* PUSH 1 with SP = $00, then POP 2 with SP = $FF. *)
C31_Witness ==
  /\ Len(trace) = 2
  /\ Opcodes = <<65, 74>>
  /\ trace[1].Reg.SP = 0
  /\ trace[2].Reg.SP = 255
  /\ LoadByte(trace[2].Mem, 256) = trace[1].Reg.R[1]
  /\ cpu.Reg.SP = 0
  /\ cpu.Reg.R[2] = trace[1].Reg.R[1]
  /\ cpu.Reg.R[2] # trace[1].Reg.R[2]
  /\ cpu.panic = NoPanic

(* C32: LBR (opcode $18) sets PC to operand[0] * 256 + operand[1]; LBRZ
   (opcode $1B) does so when Zero is set and otherwise leaves PC three past
   the instruction. Neither changes a register, a flag, SP, Q or memory, and
   both add the descriptor's cycles whether or not the branch is taken. *)
C32_LongBranch ==
  \A k \in 1..Len(trace) :
     LET b    == trace[k]
         a    == After(k)
         inst == Lookup(instructionSets[b.Arch], Opcode(b))
         addr == LoadByte(b.Mem, ToWord(b.Reg.PC + 1)) * 256
                   + LoadByte(b.Mem, ToWord(b.Reg.PC + 2))
     IN  Opcode(b) \in {24, 27} =>
           /\ a.panic = NoPanic
           /\ a.Reg.PC = IF Opcode(b) = 24 \/ b.Reg.Zero
                         THEN addr ELSE ToWord(b.Reg.PC + 3)
           /\ [a.Reg EXCEPT !.PC = b.Reg.PC] = b.Reg
           /\ MemSame(b.Mem, a.Mem, {})
           /\ a.Cycles = b.Cycles + inst.Cycles
           /\ inst.Cycles = 4

(* LBRZ $1500 with Zero set, taken. *)
C32_Witness ==
  /\ Len(trace) = 1
  /\ Opcode(Before) = 27
  /\ Before.Reg.Zero
  /\ Before.Reg.PC = Origin
  /\ cpu.Reg.PC = 5376
  /\ cpu.Cycles = 4

(* Names of the instructions that may change Carry, of those that may
   change the other status bits, and of the add instructions. *)
CarryWriters == {"SUB", "SUBI", "SUBM", "SHL", "SHR", "CMP", "SPSR", "CPSR"}

StatusWriters == {"SPSR", "CPSR"}

AddNames ==
  {"ADR", "ADM", "ADI0", "ADI1", "ADI2", "ADI3", "ADI4", "ADI5", "ADI6", "ADI7"}

(* C33: across a Step, Carry changes only if the instruction is SUB, SUBI,
   SUBM, SHL, SHR, CMP, SPSR or CPSR, and Overflow, Decimal,
   InterruptDisable and Break change only if it is SPSR or CPSR; ADR, ADI
   and ADM leave Carry and Overflow as they were even when the sum wraps. *)
C33_FlagFrame ==
  \A k \in 1..Len(trace) :
     LET b    == trace[k]
         a    == After(k)
         name == Lookup(instructionSets[b.Arch], Opcode(b)).Name
     IN  /\ a.Reg.Carry # b.Reg.Carry => name \in CarryWriters
         /\ (\/ a.Reg.Overflow # b.Reg.Overflow
             \/ a.Reg.Decimal # b.Reg.Decimal
             \/ a.Reg.InterruptDisable # b.Reg.InterruptDisable
             \/ a.Reg.Break # b.Reg.Break) => name \in StatusWriters
         /\ name \in AddNames =>
               /\ a.Reg.Carry = b.Reg.Carry
               /\ a.Reg.Overflow = b.Reg.Overflow

(* ADR $45 with R4 = $FF and R5 = $FE: the sum wraps to $FD, Carry stays
   clear. *)
C33_Witness ==
  /\ Len(trace) = 1
  /\ Opcode(Before) = 128
  /\ LoadByte(Before.Mem, Before.Reg.PC + 1) = 69
  /\ Before.Reg.R[4] = 255
  /\ Before.Reg.R[5] = 254
  /\ ~Before.Reg.Carry
  /\ cpu.Reg.R[4] = 253
  /\ ~cpu.Reg.Carry
  /\ ~cpu.Reg.Overflow

(* C34: Step never takes its undefined-instruction path. Every one of the
   256 descriptors of a table has a handler, so every Step runs the handler
   of the opcode it fetched: it records the instruction's address in LastPC
   and PC is never replaced by the contents of the reset vector. *)
C34_NoUndefinedInstruction ==
  /\ \A arch \in DOMAIN instructionSets : \A op \in Byte :
        Lookup(instructionSets[arch], op).fn # "nil"
  /\ \A k \in 1..Len(trace) :
        LET b    == trace[k]
            a    == After(k)
            inst == Lookup(instructionSets[b.Arch], Opcode(b))
        IN  /\ inst.fn # "nil"
            /\ (a.panic = NoPanic /\ ~(inst.Opcode = 0 /\ b.brkHandler)) =>
                  /\ a.LastPC = b.Reg.PC
                  /\ a.Cycles = b.Cycles + inst.Cycles

(* An opcode no instruction is assigned to ($06) is stepped over like any
   other: PC moves past it while the reset vector points elsewhere. *)
C34_Witness ==
  /\ Len(trace) = 1
  /\ Opcode(Before) = 6
  /\ Lookup(instructionSets[cpu.Arch], 6).Name = unusedName
  /\ cpu.LastPC = Origin
  /\ cpu.Reg.PC > Origin
  /\ reset(Before).Reg.PC = 0
  /\ cpu.panic = NoPanic

(* The opcodes a table of rows lists. *)
TableOpcodes(tab) == {tab[i].opcode : i \in DOMAIN tab}

(* The two tables list no opcode in common and all of 0..255 between them,
   and rows of the defined table with one opcode are the same descriptor. *)
TablesPartition(dataTab, unusedTab) ==
  /\ TableOpcodes(dataTab) \cap TableOpcodes(unusedTab) = {}
  /\ TableOpcodes(dataTab) \cup TableOpcodes(unusedTab) = Byte
  /\ \A i, j \in DOMAIN dataTab :
        dataTab[i].opcode = dataTab[j].opcode => dataTab[i] = dataTab[j]

PartitionBoth ==
  TablesPartition(data, unusedData) /\ TablesPartition(cpu_data, cpu_unusedData)

(* The name impl gives the defined opcodes. *)
DefinedName(dataTab, implTab) ==
  [op \in TableOpcodes(dataTab) |->
     symToImpl(implTab,
               dataTab[CHOOSE i \in DOMAIN dataTab : dataTab[i].opcode = op].sym).name]

dataName == DefinedName(data, impl)

cpu_dataName == DefinedName(cpu_data, cpu_impl)

(* In table set every opcode names gives a name bears it and every other
   opcode bears the unused name. *)
NamesKept(set, names) ==
  \A op \in Byte :
     Lookup(set, op).Name = IF op \in DOMAIN names THEN names[op] ELSE unusedName

cpu_NamesKept ==
  \A arch \in Architecture : NamesKept(cpu_instructionSets[arch], cpu_dataName)

(* C35: in both packages the defined-opcode table and the unused-opcode
   table are disjoint and together list exactly 0..255, no defined opcode is
   listed with two different descriptors, and so the loop over the unused
   table replaces no defined instruction: in the table built every defined
   opcode bears the name impl gives it, every other opcode the unused name. *)
C35_TablesPartition ==
  /\ PartitionBoth
  /\ cpu_NamesKept
  /\ \A op \in DOMAIN dataName : dataName[op] # unusedName
  /\ \A arch \in DOMAIN instructionSets :
        NamesKept(instructionSets[arch], dataName)

(* The table is built: $05 is CPSR, its neighbour $06 is unused, and $03,
   listed twice in the other package, is RET there. *)
C35_Witness ==
  /\ NMOS \in DOMAIN instructionSets
  /\ Lookup(instructionSets[NMOS], 5).Name = "CPSR"
  /\ Lookup(instructionSets[NMOS], 6).Name = unusedName
  /\ Lookup(cpu_instructionSets[NMOS], 3).Name = "RET"
  /\ Cardinality({i \in DOMAIN cpu_data : cpu_data[i].opcode = 3}) = 2
  /\ Cardinality(TableOpcodes(data)) = 184
  /\ Cardinality(TableOpcodes(unusedData)) = 72
  /\ phase = "new"

(* C36: a Step that fetches opcode $00 while a BRK handler is attached calls
   the handler and returns: PC, LastPC, Cycles and everything else are as
   before, so with a handler that leaves PC alone every later Step is on
   that same NOP. Without a handler the Step is a NOP: PC and Cycles grow
   by 1. *)
C36_BrkHandler ==
  \A k \in 1..Len(trace) :
     LET b == trace[k]
         a == After(k)
     IN  Opcode(b) = 0 =>
           IF b.brkHandler
           THEN /\ a = [b EXCEPT !.onBrk = @ + 1]
                /\ \A j \in k..Len(trace) :
                      /\ trace[j].Reg.PC = b.Reg.PC
                      /\ After(j).Cycles = b.Cycles
                      /\ After(j).LastPC = b.LastPC
                      /\ After(j).onBrk = b.onBrk + (j - k + 1)
           ELSE /\ a = [b EXCEPT !.Reg.PC = ToWord(@ + 1),
                                 !.LastPC = b.Reg.PC,
                                 !.Cycles = @ + 1]
                /\ a.onBrk = 0

(* LDI0 #$11; NOP; LDI1 #$01 with a handler: the second and the third Step
   are both on the NOP. *)
C36_Witness ==
  /\ Len(trace) = 3
  /\ cpu.brkHandler
  /\ Opcodes = <<224, 0, 0>>
  /\ cpu.Reg.PC = Origin + 2
  /\ cpu.LastPC = Origin
  /\ cpu.Cycles = trace[2].Cycles
  /\ cpu.onBrk = 2
  /\ cpu.Reg.R[0] = 17
  /\ stepsLeft = 0

(* C37: shifts round-trip through Carry. SHL r followed by SHRC r, and SHR r
   followed by SHLC r, leave R[r] as it was for every r and every value of
   R[r]: the bit the first instruction shifts out into Carry is the bit the
   second shifts back in. The other registers are untouched. *)
C37_ShiftRoundTrip ==
  \A k \in 1..(Len(trace) - 1) : \A r \in RegIndex : \A sp \in ShiftPairs :
     LET b == trace[k]
         m == trace[k + 1]
         a == After(k + 1)
     IN  (Opcode(b) = sp[1] + r /\ Opcode(m) = sp[2] + r) =>
           /\ a.Reg.R = b.Reg.R
           /\ m.Reg.Carry = (Bit(b.Reg.R[r], IF sp[1] = 120 THEN 7 ELSE 0) = 1)
           /\ a.Reg.Carry = m.Reg.Carry
           /\ a.panic = NoPanic

(* LDI5 #$81; SHL5; SHRC5: $81, then $02 with Carry, then $81 again. *)
C37_Witness ==
  /\ Len(trace) = 3
  /\ Opcodes = <<229, 125, 117>>
  /\ trace[2].Reg.R[5] = 129
  /\ trace[3].Reg.R[5] = 2
  /\ trace[3].Reg.Carry
  /\ ~trace[2].Reg.Carry
  /\ cpu.Reg.R[5] = 129

(* The unobserved CPU is, Step for Step, in the state of the observed one. *)
ObserverIsPassive ==
  \A n \in 1..Len(twin) : n <= Len(History) => SameState(twin[n], History[n])

(* What the PC hook is handed at the end of the Step that led to CPU a. *)
PCUpdate(a) == [addr |-> a.Reg.PC, Cycles |-> a.Cycles, Reg |-> a.Reg]

(* The Step from CPU b was handed to the BRK handler. *)
Intercepted(b) == Opcode(b) = 0 /\ b.brkHandler

(* C38, as stated: a CPU stepped with a debugger attached and one stepped
   without (or after DetachDebugger) have the same registers, flags, SP, PC,
   Q, Cycles and memory after every Step, and the PC hook is called exactly
   once per Step, after the handler has run and Cycles has been updated. *)
C38_OncePerStep ==
  /\ ObserverIsPassive
  /\ \A k \in 1..Len(trace) :
        (trace[k].debugger.attached /\ After(k).panic = NoPanic) =>
           After(k).debugger.onUpdatePC =
              Append(trace[k].debugger.onUpdatePC, PCUpdate(After(k)))

(* C38, amended: the two CPUs agree after every Step, and the PC hook is
   called exactly once per Step that executes an instruction, after the
   handler has run and Cycles has been updated; a Step handed to the BRK
   handler returns without calling the hook. *)
C38_OncePerExecutedStep ==
  /\ ObserverIsPassive
  /\ \A k \in 1..Len(trace) :
        (trace[k].debugger.attached /\ After(k).panic = NoPanic) =>
           After(k).debugger.onUpdatePC =
              IF Intercepted(trace[k])
              THEN trace[k].debugger.onUpdatePC
              ELSE Append(trace[k].debugger.onUpdatePC, PCUpdate(After(k)))

(* LDI0 #$5E; STI0 $1500 on both CPUs: two calls of the hook, the second
   with PC past the STI and Cycles counted, and the same byte at $1500. *)
C38_Witness ==
  /\ Len(trace) = 2
  /\ Len(twin) = 3
  /\ Opcodes = <<224, 232>>
  /\ cpu.debugger.attached
  /\ ~twin[1].debugger.attached
  /\ Len(cpu.debugger.onUpdatePC) = 2
  /\ cpu.debugger.onUpdatePC[2].addr = Origin + 5
  /\ cpu.debugger.onUpdatePC[2].Cycles = cpu.Cycles
  /\ cpu.Cycles > trace[2].Cycles
  /\ LoadByte(twin[3].Mem, 5376) = 94
  /\ LoadByte(cpu.Mem, 5376) = 94

(* C39: pushAddress(a) followed by popAddress() returns a and restores SP,
   for every address a and every starting SP, the wrapping ones included;
   pushAddress leaves the high byte of a at $0100 + SP and the low byte at
   $0100 + ((SP - 1) mod 256), changes no other cell and lowers SP by 2
   modulo 256: the address is big-endian on the stack. *)
C39_AddressRoundTrip ==
  \A addr \in Addresses :
     /\ (phase = "pushed" /\ cpu = pushAddress(Before, addr)) =>
           LET sp == Before.Reg.SP IN
           /\ LoadByte(cpu.Mem, 256 + sp) = addr \div 256
           /\ LoadByte(cpu.Mem, 256 + ((sp + 255) % 256)) = addr % 256
           /\ MemSame(Before.Mem, cpu.Mem, {256 + sp, 256 + ((sp + 255) % 256)})
           /\ cpu.Reg.SP = (sp + 254) % 256
           /\ popAddress(cpu).addr = addr
           /\ popAddress(cpu).c.Reg.SP = sp
     /\ (phase = "popped" /\ Before = pushAddress(trace[Len(trace) - 1], addr)) =>
           /\ popAddress(Before).addr = addr
           /\ cpu.Reg.SP = trace[Len(trace) - 1].Reg.SP
           /\ cpu.Mem = Before.Mem

(* pushAddress($01FE) with SP = $00, then popAddress(): $01 at $0100, $FE at
   $01FF, SP = $FE and then $00 again. *)
C39_Witness ==
  /\ phase = "popped"
  /\ Len(trace) = 2
  /\ trace[1].Reg.SP = 0
  /\ trace[2].Reg.SP = 254
  /\ LoadByte(trace[2].Mem, 256) = 1
  /\ LoadByte(trace[2].Mem, 511) = 254
  /\ popAddress(trace[2]).addr = 510
  /\ cpu.Reg.SP = 0

============================================================================
